---- MODULE Spec2Model ----
(***************************************************************************)
(* A model of the `ti` terminal pixel-graphics renderer: the Cell bit      *)
(* layout (src/src/cell.rs), the coordinate helpers (src/src/units.rs),    *)
(* the Sprite offset grids (src/src/sprite/mod.rs) and the Screen          *)
(* framebuffer with its blit, delta and colour-priority rules              *)
(* (src/src/screen.rs).                                                    *)
(***************************************************************************)
EXTENDS Integers, Sequences, FiniteSets, TLC

VARIABLES
    cin,      \* Cell specifications: the byte a Cell is built from (Cell::new)
    cout,     \* Cell specifications: the last Cell operation and its result
    cells,    \* Screen.cells : index -> u8
    deltas,   \* Screen.deltas: index -> Option<Priority<Cell>>
    colors,   \* Screen.colors: index -> Option<Priority<Color>>
    calls,    \* the calls made on the Screen, in order: name, arguments, result
    pre,      \* the Screen as it was before the last call
    shown,    \* Screen.cells as they were at the last reset_deltas (or at new)
    out,      \* what has been queued and written to the terminal (or buffer)
    lp        \* start_loop: its position, the terminal modes, its result

vars == <<cin, cout, cells, deltas, colors, calls, pre, shown, out, lp>>

cellVars == <<cin, cout>>
screenVars == <<cells, deltas, colors, calls, pre, shown>>
ioVars == <<out, lp>>

(***************************************************************************)
(* u8 arithmetic                                                           *)
(***************************************************************************)
Byte == 0..255

Bit(v, i) == (v \div (2^i)) % 2

And8(a, b) ==
    Bit(a, 0) * Bit(b, 0) + 2 * Bit(a, 1) * Bit(b, 1) + 4 * Bit(a, 2) * Bit(b, 2)
    + 8 * Bit(a, 3) * Bit(b, 3) + 16 * Bit(a, 4) * Bit(b, 4) + 32 * Bit(a, 5) * Bit(b, 5)
    + 64 * Bit(a, 6) * Bit(b, 6) + 128 * Bit(a, 7) * Bit(b, 7)
\* a | b = a + b - (a & b), a ^ b = a + b - 2 (a & b)
Or8(a, b)  == a + b - And8(a, b)
Xor8(a, b) == a + b - 2 * And8(a, b)
Not8(a)    == 255 - a
\* `<<` and `>>` on u8 with a shift below 8: the bits shifted out are lost
Shl8(a, k) == (a * (2^k)) % 256
Shr8(a, k) == a \div (2^k)

None == [some |-> FALSE]
Some(v) == [some |-> TRUE, value |-> v]

(***************************************************************************)
(* cell.rs                                                                 *)
(***************************************************************************)
BRAILLE_BASE_CODEPOINT == 10240
BRAILLE_UTF8_BYTES == 3
PIXEL_WIDTH == 2
PIXEL_HEIGHT == 4
PIXEL_OFFSETS == PIXEL_WIDTH * PIXEL_HEIGHT

is_empty(c) == c = 0

from_bit_position(x, y) ==
    IF x < PIXEL_WIDTH /\ y < PIXEL_HEIGHT
    THEN Some(Shl8(1, PIXEL_WIDTH * y + x))
    ELSE None

\* a plausible slip: the 1<->3 and 2<->4 moves of the two middle rows swapped
braille_offset_swapped(c) ==
    Or8(Or8(Or8(Or8(And8(c, 225),
        Shl8(And8(c, 2), 1)),
        Shl8(And8(c, 4), 2)),
        Shr8(And8(c, 8), 2)),
        Shr8(And8(c, 16), 1))

braille_offset(c) ==
    Or8(Or8(Or8(Or8(And8(c, 225),
        Shl8(And8(c, 2), 2)),
        Shr8(And8(c, 4), 1)),
        Shl8(And8(c, 8), 1)),
        Shr8(And8(c, 16), 2))

\* a plausible slip: the inverse permutation written as the forward one
from_braille_forward(ch) ==
    IF ch >= BRAILLE_BASE_CODEPOINT /\ ch < BRAILLE_BASE_CODEPOINT + 256
    THEN LET offset == (ch - BRAILLE_BASE_CODEPOINT) % 256
         IN  Some(Or8(Or8(Or8(Or8(And8(offset, 225),
                 Shl8(And8(offset, 2), 2)),
                 Shr8(And8(offset, 4), 1)),
                 Shl8(And8(offset, 8), 1)),
                 Shr8(And8(offset, 16), 2)))
    ELSE None

from_braille(ch) ==
    IF ch >= BRAILLE_BASE_CODEPOINT /\ ch < BRAILLE_BASE_CODEPOINT + 256
    THEN LET offset == (ch - BRAILLE_BASE_CODEPOINT) % 256
         IN  Some(Or8(Or8(Or8(Or8(And8(offset, 225),
                 Shl8(And8(offset, 2), 1)),
                 Shl8(And8(offset, 4), 2)),
                 Shr8(And8(offset, 8), 2)),
                 Shr8(And8(offset, 16), 1)))
    ELSE None

to_braille_char(c) == BRAILLE_BASE_CODEPOINT + braille_offset(c)

\* char::encode_utf8: the UTF-8 bytes of a code point
encode_utf8(cp) ==
    IF cp < 128 THEN <<cp>>
    ELSE IF cp < 2048 THEN <<192 + (cp \div 64), 128 + (cp % 64)>>
    ELSE IF cp < 65536
    THEN <<224 + (cp \div 4096), 128 + ((cp \div 64) % 64), 128 + (cp % 64)>>
    ELSE <<240 + (cp \div 262144), 128 + ((cp \div 4096) % 64),
           128 + ((cp \div 64) % 64), 128 + (cp % 64)>>

to_braille_utf8(c) == encode_utf8(to_braille_char(c))

\* a plausible slip: the two halves are returned in the other order
compute_x_offset_swapped(c, x_offset) ==
    <<Shr8(And8(c, Not8(85)), x_offset), Shl8(And8(c, 85), PIXEL_WIDTH - x_offset)>>

\* a plausible slip: the odd-column bits are not masked out of `first`
compute_x_offset_nomask(c, x_offset) ==
    <<Shl8(c, PIXEL_WIDTH - x_offset), Shr8(And8(c, Not8(85)), x_offset)>>

compute_x_offset(c, x_offset) ==
    LET mask   == 85
        first  == Shl8(And8(c, mask), PIXEL_WIDTH - x_offset)
        second == Shr8(And8(c, Not8(mask)), x_offset)
    IN  <<first, second>>

compute_y_offset(c, y_offset0) ==
    LET y_offset == PIXEL_HEIGHT - y_offset0
        stride   == PIXEL_WIDTH
        mask     == (Shl8(1, stride * y_offset) - 1) % 256
        first    == Shl8(And8(c, mask), stride * (PIXEL_HEIGHT - y_offset))
        second   == Shr8(And8(c, Not8(mask)), stride * y_offset)
    IN  <<first, second>>

with_offset(c, x_offset0, y_offset0) ==
    LET x_offset == x_offset0 % PIXEL_WIDTH
        y_offset == y_offset0 % PIXEL_HEIGHT
    IN  IF x_offset = 0 /\ y_offset = 0
        THEN [kind |-> "Aligned", cell |-> c]
        ELSE IF x_offset = 1 /\ y_offset = 0
        THEN LET lr == compute_x_offset(c, x_offset)
             IN  [kind |-> "Horizontal", left |-> lr[1], right |-> lr[2]]
        ELSE IF x_offset = 0
        THEN LET ud == compute_y_offset(c, y_offset)
             IN  [kind |-> "Vertical", up |-> ud[1], down |-> ud[2]]
        ELSE LET tb == compute_y_offset(c, y_offset)
                 u  == compute_x_offset(tb[1], x_offset)
                 d  == compute_x_offset(tb[2], x_offset)
             IN  [kind |-> "Corner", ul |-> u[1], ur |-> u[2],
                                     dl |-> d[1], dr |-> d[2]]

(***************************************************************************)
(* units.rs                                                                *)
(***************************************************************************)
cell_length(width, height) == width * height

px_offset(x, y) == PIXEL_WIDTH * y + x

offset_px(offset) == <<offset % PIXEL_WIDTH, offset \div PIXEL_WIDTH>>

\* ((x cell, x subcell), (y cell, y subcell))
pos_components(x, y) ==
    <<<<x \div PIXEL_WIDTH, x % PIXEL_WIDTH>>,
      <<y \div PIXEL_HEIGHT, y % PIXEL_HEIGHT>>>>

index(x, y, width) == y * width + x

from_index(i, width) == <<i % width, i \div width>>

(***************************************************************************)
(* color.rs: ColoredCell                                                   *)
(***************************************************************************)
ColoredCell(cell, color) == [cell |-> cell, color |-> color]

ColoredCell_default == ColoredCell(0, None)

\* ColoredCell::merge_cell(cell, color) as sprite/mod.rs calls it.  The bits
\* are OR-ed (color.rs); the two-argument form that also takes the colour is
\* not in color.rs: the colour of the merging operand is carried over.
merge_cell_bits(self, cell) == Or8(self.cell, cell)

merge_cell_color(self, color) == color

merge_cell(self, cell, color) ==
    [cell |-> merge_cell_bits(self, cell), color |-> merge_cell_color(self, color)]

(***************************************************************************)
(* screen.rs: Priority<T>                                                  *)
(***************************************************************************)
Priority(value, priority) == [value |-> value, priority |-> priority]

Less == "Less"
Equal == "Equal"
Greater == "Greater"

\* a plausible slip: the value is left out of the comparison
Priority_cmp_priority_only(a, b) ==
    IF a.priority < b.priority THEN Less
    ELSE IF a.priority > b.priority THEN Greater
    ELSE Equal

\* a plausible slip: the comparison of the priorities reversed
Priority_cmp_reversed(a, b) ==
    IF a.priority > b.priority THEN Less
    ELSE IF a.priority < b.priority THEN Greater
    ELSE IF a.value < b.value THEN Less
    ELSE IF a.value > b.value THEN Greater
    ELSE Equal

\* impl Ord for Priority<T>: by priority, then by value
Priority_cmp(a, b) ==
    IF a.priority < b.priority THEN Less
    ELSE IF a.priority > b.priority THEN Greater
    ELSE IF a.value < b.value THEN Less
    ELSE IF a.value > b.value THEN Greater
    ELSE Equal

\* previous.max(new): Ord::max keeps `previous` only when it compares Greater
Priority_max(previous, new) ==
    IF Priority_cmp(previous, new) = Greater THEN previous ELSE new

(***************************************************************************)
(* screen.rs: Screen                                                       *)
(***************************************************************************)
\* the dimensions the modelled screen is constructed with
ScreenWidth == 2
ScreenHeight == 2

Blits == {"Set", "Unset", "Add", "Subtract", "Toggle"}

u16_MAX == 65535

\* a Screen value: the three parallel arrays
ScreenState(c, d, k) == [cells |-> c, deltas |-> d, colors |-> k]

new_cells(w, h) ==
    ScreenState([i \in 0..(cell_length(w, h) - 1) |-> 0],
                [i \in 0..(cell_length(w, h) - 1) |-> None],
                [i \in 0..(cell_length(w, h) - 1) |-> None])

width == ScreenWidth
height == ScreenHeight

screen_index(x, y) == index(x, y, width)

screen_from_index(i) == from_index(i, width)

\* a plausible slip: an inclusive bound on x
in_bounds_x_inclusive(x, y) == x <= width /\ y < height

in_bounds(x, y) == x < width /\ y < height

\* a plausible slip: Unset clears the drawn bits instead of storing the inverse
blit_bits_unset_as_subtract(previous, cell, blit) ==
    CASE blit = "Set"      -> cell
      [] blit = "Unset"    -> And8(previous, Not8(cell))
      [] blit = "Add"      -> Or8(previous, cell)
      [] blit = "Subtract" -> And8(previous, Not8(cell))
      [] blit = "Toggle"   -> Xor8(previous, cell)

blit_bits(previous, cell, blit) ==
    CASE blit = "Set"      -> cell
      [] blit = "Unset"    -> Not8(cell)
      [] blit = "Add"      -> Or8(previous, cell)
      [] blit = "Subtract" -> And8(previous, Not8(cell))
      [] blit = "Toggle"   -> Xor8(previous, cell)

\* a plausible slip: the delta records the latest result for every blit
draw_cell_latest_delta(s, cell, x, y, blit, priority) ==
    IF in_bounds(x, y)
    THEN LET i        == screen_index(x, y)
             new_cell == blit_bits(s.cells[i], cell, blit)
             new      == Priority(new_cell, priority)
         IN  [s   |-> [s EXCEPT !.deltas[i] = Some(new), !.cells[i] = new_cell],
              ret |-> TRUE]
    ELSE [s |-> s, ret |-> FALSE]

\* a plausible slip: only the blits that compare priorities record a delta
draw_cell_delta_for_set_only(s, cell, x, y, blit, priority) ==
    IF in_bounds(x, y)
    THEN LET i        == screen_index(x, y)
             new_cell == blit_bits(s.cells[i], cell, blit)
             new      == Priority(new_cell, priority)
             delta    == IF blit \in {"Set", "Unset"}
                         THEN IF s.deltas[i].some
                              THEN Some(Priority_max(s.deltas[i].value, new))
                              ELSE Some(new)
                         ELSE s.deltas[i]
         IN  [s   |-> [s EXCEPT !.deltas[i] = delta, !.cells[i] = new_cell],
              ret |-> TRUE]
    ELSE [s |-> s, ret |-> FALSE]

\* each call returns [s |-> the screen afterwards, ret |-> the returned bool]
draw_cell(s, cell, x, y, blit, priority) ==
    IF in_bounds(x, y)
    THEN LET i        == screen_index(x, y)
             new_cell == blit_bits(s.cells[i], cell, blit)
             new      == Priority(new_cell, priority)
             delta    == IF blit \in {"Set", "Unset"}
                         THEN IF s.deltas[i].some
                              THEN Some(Priority_max(s.deltas[i].value, new))
                              ELSE Some(new)
                         ELSE Some(new)
         IN  [s   |-> [s EXCEPT !.deltas[i] = delta, !.cells[i] = new_cell],
              ret |-> TRUE]
    ELSE [s |-> s, ret |-> FALSE]

draw_cell_color(s, color, x, y, priority) ==
    IF in_bounds(x, y)
    THEN LET i         == screen_index(x, y)
             new_color == Priority(color, priority)
             stored    == IF s.colors[i].some
                          THEN Some(Priority_max(s.colors[i].value, new_color))
                          ELSE Some(new_color)
         IN  [s |-> [s EXCEPT !.colors[i] = stored], ret |-> TRUE]
    ELSE [s |-> s, ret |-> FALSE]

\* a plausible slip: the blit is passed on without the Set->Add, Unset->Subtract
\* conversion
draw_pixel_unconverted(s, x, y, blit) ==
    LET pc   == pos_components(x, y)
        cell == from_bit_position(pc[1][2], pc[2][2]).value
    IN  draw_cell(s, cell, pc[1][1], pc[2][1], blit, u16_MAX)

draw_pixel(s, x, y, blit0) ==
    LET pc   == pos_components(x, y)
        blit == CASE blit0 = "Unset" -> "Subtract"
                  [] blit0 = "Set"   -> "Add"
                  [] OTHER           -> blit0
        cell == from_bit_position(pc[1][2], pc[2][2]).value
    IN  draw_cell(s, cell, pc[1][1], pc[2][1], blit, u16_MAX)

get_cell(s, x, y) ==
    IF in_bounds(x, y) THEN Some(s.cells[screen_index(x, y)]) ELSE None

get_color(s, x, y) ==
    IF in_bounds(x, y)
    THEN LET p == s.colors[screen_index(x, y)]
         IN  IF p.some THEN Some(p.value.value) ELSE None
    ELSE None

get_pixel(s, x, y) ==
    LET pc   == pos_components(x, y)
        mask == from_bit_position(pc[1][2], pc[2][2]).value
        cell == get_cell(s, pc[1][1], pc[2][1])
    IN  IF cell.some THEN Some(And8(cell.value, mask) # 0) ELSE None

\* a plausible slip: the cells are emptied and the deltas are left as they were
clear_cells_only(s) ==
    [s EXCEPT !.cells = [i \in DOMAIN s.cells |-> 0]]

clear(s) ==
    [s EXCEPT !.cells  = [i \in DOMAIN s.cells |-> 0],
              !.deltas = [i \in DOMAIN s.deltas |-> Some(Priority(0, 0))]]

\* a plausible slip: the colours are left as they were
reset_deltas_keep_colors(s) ==
    [s EXCEPT !.deltas = [i \in DOMAIN s.deltas |-> None]]

reset_deltas(s) ==
    [s EXCEPT !.deltas = [i \in DOMAIN s.deltas |-> None],
              !.colors = [i \in DOMAIN s.colors |-> None]]

(***************************************************************************)
(* screen.rs: Screen::rasterize                                            *)
(***************************************************************************)
\* a plausible slip: the newline bytes of the rows above are not counted
rasterize_cell_unshifted(buf, s, x, y) ==
    LET i == screen_index(x, y)
        b == to_braille_utf8(s.cells[i])
    IN  [k \in DOMAIN buf |->
            IF k \in (i * 3)..((i + 1) * 3 - 1) THEN b[k - (i * 3) + 1] ELSE buf[k]]

\* buf[i * 3 + y..(i + 1) * 3 + y].copy_from_slice(&self.cells[i].to_braille_utf8())
rasterize_cell(buf, s, x, y) ==
    LET i == screen_index(x, y)
        b == to_braille_utf8(s.cells[i])
    IN  [k \in DOMAIN buf |->
            IF k \in (i * 3 + y)..((i + 1) * 3 + y - 1)
            THEN b[k - (i * 3 + y) + 1]
            ELSE buf[k]]

\* for x in 0..self.width() { ... }, from column x, and the newline of the row
RECURSIVE rasterize_row(_, _, _, _)
rasterize_row(buf, s, x, y) ==
    IF x >= width
    THEN [buf EXCEPT ![(y + 1) * (width * 3 + 1) - 1] = 10]
    ELSE rasterize_row(rasterize_cell(buf, s, x, y), s, x + 1, y)

\* for y in 0..self.height() { ... }, from row y
RECURSIVE rasterize_rows(_, _, _)
rasterize_rows(buf, s, y) ==
    IF y >= height
    THEN buf
    ELSE rasterize_rows(rasterize_row(buf, s, 0, y), s, y + 1)

\* the bytes of the String returned
rasterize(s) ==
    LET n   == Cardinality(DOMAIN s.cells) * BRAILLE_UTF8_BYTES + height
        buf == rasterize_rows([k \in 0..(n - 1) |-> 0], s, 0)
    IN  [k \in 1..n |-> buf[k - 1]]

(***************************************************************************)
(* screen.rs: Screen::write_screen_to                                      *)
(***************************************************************************)
\* the commands queued to the buffer, and the bytes written to it
MoveTo(x, y) == [cmd |-> "MoveTo", x |-> x, y |-> y]
MoveToRow(y) == [cmd |-> "MoveToRow", y |-> y]
MoveToColumn(x) == [cmd |-> "MoveToColumn", x |-> x]
SetForegroundColor(c) == [cmd |-> "SetForegroundColor", color |-> c]
WriteAll(bytes) == [cmd |-> "write_all", bytes |-> bytes]
Flush == [cmd |-> "flush"]

\* color.rs: Color::to_crossterm_color, the AnsiValue of the colour
to_crossterm_color(c) == [AnsiValue |-> c]

\* color.rs: the component values most terminals use, indexed from 0
RGB == [i \in 0..5 |-> <<0, 95, 135, 175, 215, 255>>[i + 1]]
GREYSCALE == [i \in 0..23 |-> i * 10 + 8]

\* scale.iter().position(|&next| next >= target).unwrap_or(scale.len() - 1)
scale_len(scale) == Cardinality(DOMAIN scale)
position_or_last(scale, target) ==
    LET hits == {i \in DOMAIN scale : scale[i] >= target}
    IN  IF hits = {} THEN scale_len(scale) - 1
        ELSE CHOOSE i \in hits : \A j \in hits : i <= j

\* a plausible slip: an exact tie goes to the next (larger) scale value
interpolate_component_ties_up(scale, target) ==
    LET next_ansi == position_or_last(scale, target)
        next == scale[next_ansi]
    IN  IF target >= next THEN next_ansi
        ELSE IF next_ansi = 0 THEN next_ansi
        ELSE LET prev_ansi == next_ansi - 1
                 prev == scale[prev_ansi]
             IN  IF target - prev >= next - target THEN next_ansi ELSE prev_ansi

\* color.rs: interpolate_component
interpolate_component(scale, target) ==
    LET next_ansi == position_or_last(scale, target)
        next == scale[next_ansi]
    IN  IF target >= next THEN next_ansi
        ELSE IF next_ansi = 0 THEN next_ansi
        ELSE LET prev_ansi == next_ansi - 1
                 prev == scale[prev_ansi]
             IN  IF target - prev > next - target THEN next_ansi ELSE prev_ansi

\* color.rs: dist is the f32 cube root of this sum of cubed differences
AbsDiff(a, b) == IF a >= b THEN a - b ELSE b - a
Cube(n) == n * n * n
dist_cubed(a, b) ==
    Cube(AbsDiff(a[1], b[1])) + Cube(AbsDiff(a[2], b[2])) + Cube(AbsDiff(a[3], b[3]))

\* The possible outcomes of dist(a, p) > dist(b, p) in f32.  Rounding is
\* monotone, so the comparison is false when the exact sum for a is not the
\* larger one; it is true when the sum for a is at least twice the other one
\* (the rounded cube roots then differ by a factor of about 1.26); in between
\* the two rounded roots may coincide, and both outcomes are kept.
dist_greater(a, b, p) ==
    LET da == dist_cubed(a, p)
        db == dist_cubed(b, p)
    IN  IF da <= db THEN {FALSE}
        ELSE IF da >= 2 * db THEN {TRUE}
        ELSE BOOLEAN

Min(a, b) == IF a <= b THEN a ELSE b

\* color.rs: Color::from_ansi_components
from_ansi_components(r, g, b) == Min(r, 5) * 36 + Min(g, 5) * 6 + Min(b, 5) + 16

\* a plausible slip: the greyscale ramp is taken to start one colour early
from_ansi_greyscale_early(step) == 231 + Min(step, 23)

\* color.rs: Color::from_ansi_greyscale
from_ansi_greyscale(step) == 232 + Min(step, 23)

\* color.rs: the RGB triples of the 16 standard colours in to_rgb_approximate
StandardRGB ==
    << <<0, 0, 0>>, <<128, 0, 0>>, <<0, 128, 0>>, <<128, 128, 0>>,
       <<0, 0, 128>>, <<128, 0, 128>>, <<0, 128, 128>>, <<192, 192, 192>>,
       <<128, 128, 128>>, <<255, 0, 0>>, <<0, 255, 0>>, <<255, 255, 0>>,
       <<0, 0, 255>>, <<255, 0, 255>>, <<0, 255, 255>>, <<255, 255, 255>> >>

\* color.rs: Color::to_rgb_approximate
to_rgb_approximate(c) ==
    IF c <= 15 THEN StandardRGB[c + 1]
    ELSE IF c <= 231
    THEN LET offset == c - 16
         IN  <<RGB[(offset \div 36) % 6], RGB[(offset \div 6) % 6], RGB[offset % 6]>>
    ELSE LET step == c - 232
         IN  <<GREYSCALE[step], GREYSCALE[step], GREYSCALE[step]>>

\* color.rs: Color::from_rgb_approximate, the set of colours it can return
from_rgb_approximate(r, g, b) ==
    LET components == from_ansi_components(interpolate_component(RGB, r),
                                           interpolate_component(RGB, g),
                                           interpolate_component(RGB, b))
        greyscale == from_ansi_greyscale(
                         interpolate_component(GREYSCALE, ((r + g + b) \div 3) % 256))
    IN  {IF gt THEN greyscale ELSE components :
            gt \in dist_greater(to_rgb_approximate(components),
                                to_rgb_approximate(greyscale), <<r, g, b>>)}

\* a plausible slip: the running cursor is not advanced past the written cell
write_cell_cursor_not_advanced(acc, s, i) ==
    IF s.deltas[i].some
    THEN LET pos   == screen_from_index(i)
             x     == pos[1]
             y     == pos[2]
             moves == CASE x = acc.cur_x /\ y = acc.cur_y -> <<>>
                        [] x = acc.cur_x /\ y # acc.cur_y -> <<MoveToRow(y)>>
                        [] x # acc.cur_x /\ y = acc.cur_y -> <<MoveToColumn(x)>>
                        [] OTHER                          -> <<MoveTo(x, y)>>
             color == s.colors[i]
             sets  == IF color # acc.cur_color /\ color.some
                      THEN <<SetForegroundColor(to_crossterm_color(color.value.value))>>
                      ELSE <<>>
         IN  [out       |-> acc.out \o moves \o sets \o
                            <<WriteAll(to_braille_utf8(s.deltas[i].value.value))>>,
              cur_x     |-> x,
              cur_y     |-> y,
              cur_color |-> color]
    ELSE acc

\* the body of the loop of write_screen_to for index i:
\* acc = [out, cur_x, cur_y, cur_color]
write_cell(acc, s, i) ==
    IF s.deltas[i].some
    THEN LET pos   == screen_from_index(i)
             x     == pos[1]
             y     == pos[2]
             moves == CASE x = acc.cur_x /\ y = acc.cur_y -> <<>>
                        [] x = acc.cur_x /\ y # acc.cur_y -> <<MoveToRow(y)>>
                        [] x # acc.cur_x /\ y = acc.cur_y -> <<MoveToColumn(x)>>
                        [] OTHER                          -> <<MoveTo(x, y)>>
             color == s.colors[i]
             sets  == IF color # acc.cur_color /\ color.some
                      THEN <<SetForegroundColor(to_crossterm_color(color.value.value))>>
                      ELSE <<>>
         IN  [out       |-> acc.out \o moves \o sets \o
                            <<WriteAll(to_braille_utf8(s.deltas[i].value.value))>>,
              cur_x     |-> x + 1,
              cur_y     |-> y,
              cur_color |-> color]
    ELSE acc

\* for (i, (&delta, &color)) in deltas.iter().zip(colors.iter()).enumerate()
RECURSIVE write_cells(_, _, _)
write_cells(acc, s, i) ==
    IF i \notin DOMAIN s.deltas
    THEN acc
    ELSE write_cells(write_cell(acc, s, i), s, i + 1)

\* what write_screen_to queues and writes to a buffer that accepts everything
write_screen_to(s) ==
    write_cells([out |-> <<MoveTo(0, 0)>>, cur_x |-> 0, cur_y |-> 0,
                 cur_color |-> None], s, 0).out \o <<Flush>>

(***************************************************************************)
(* screen.rs: enter_screen, exit_screen, handle_default_events             *)
(***************************************************************************)
\* the modes of the terminal
Terminal(alternate, hidden, raw) ==
    [alternate |-> alternate, hidden |-> hidden, raw |-> raw]

\* enter_screen: EnterAlternateScreen, Hide, enable_raw_mode, each of which
\* may fail and end the function with `?`; the outcomes are [term, ok]
enter_screen(term) ==
    {[term |-> term, ok |-> FALSE],
     [term |-> [term EXCEPT !.alternate = TRUE], ok |-> FALSE],
     [term |-> [term EXCEPT !.alternate = TRUE, !.hidden = TRUE], ok |-> FALSE],
     [term |-> Terminal(TRUE, TRUE, TRUE), ok |-> TRUE]}

\* exit_screen: disable_raw_mode, LeaveAlternateScreen, Show, likewise
exit_screen(term) ==
    {[term |-> term, ok |-> FALSE],
     [term |-> [term EXCEPT !.raw = FALSE], ok |-> FALSE],
     [term |-> [term EXCEPT !.raw = FALSE, !.alternate = FALSE], ok |-> FALSE],
     [term |-> Terminal(FALSE, FALSE, FALSE), ok |-> TRUE]}

\* a key event: its code and whether its modifiers are exactly CONTROL
KeyEvent(code, control) == [code |-> code, control |-> control]

\* a plausible slip: the modifiers are not looked at
handle_default_events_any_c(term, event) ==
    IF event.some /\ event.value.code = "c"
    THEN {[term |-> r.term, exited |-> TRUE,
           ret |-> IF r.ok THEN Some(FALSE) ELSE None] : r \in exit_screen(term)}
    ELSE {[term |-> term, exited |-> FALSE, ret |-> Some(TRUE)]}

\* handle_default_events: the outcomes [term, exited, ret], where ret is
\* Some(b) for Ok(b) and None for Err, and exited tells that exit_screen ran
handle_default_events(term, event) ==
    IF event.some /\ event.value.code = "c" /\ event.value.control
    THEN {[term |-> r.term, exited |-> TRUE,
           ret |-> IF r.ok THEN Some(FALSE) ELSE None] : r \in exit_screen(term)}
    ELSE {[term |-> term, exited |-> FALSE, ret |-> Some(TRUE)]}

(***************************************************************************)
(* sprite/mod.rs: Sprite                                                   *)
(***************************************************************************)
\* a sprite: offsets[0..7] are the grids (index -> ColoredCell)
Sprite_empty(width_cells, height_cells, priority) ==
    [offsets  |-> [o \in 0..(PIXEL_OFFSETS - 1) |->
                     [i \in 0..(cell_length(width_cells, height_cells) - 1) |->
                        ColoredCell_default]],
     width    |-> width_cells,
     height   |-> height_cells,
     priority |-> priority]

\* u16 addition without overflow checks: the sum wraps
u16_wrapping_add(a, b) == (a + b) % (u16_MAX + 1)

\* u16 addition with overflow checks panics exactly when the sum does not fit
u16_add_overflows(a, b) == a + b > u16_MAX

u16_wrapping_sub(a, b) == (a - b + u16_MAX + 1) % (u16_MAX + 1)

\* screen.rs: (n + unit as u16 - 1) / unit as u16 in wrapping u16 arithmetic
round_up_div(n, unit) == u16_wrapping_sub(u16_wrapping_add(n, unit), 1) \div unit

\* with overflow checks the addition n + unit panics when the sum does not fit
\* (the subtraction that follows then never underflows)
round_up_div_overflows(n, unit) == n + unit > u16_MAX

\* screen.rs: Screen::new_pixels, the arguments it passes to new_cells
new_pixels_size(w, h) == <<round_up_div(w, PIXEL_WIDTH), round_up_div(h, PIXEL_HEIGHT)>>

new_pixels_panics(w, h, overflow_checks) ==
    overflow_checks /\ (round_up_div_overflows(w, PIXEL_WIDTH)
                        \/ round_up_div_overflows(h, PIXEL_HEIGHT))

\* what a caller can observe of the screen new_cells(w, h) returns: its size
\* and whether every cell is empty and every delta and colour is None
screen_summary(w, h) ==
    LET s == new_cells(w, h)
    IN  [width |-> w, height |-> h,
         n_cells  |-> Cardinality(DOMAIN s.cells),
         n_deltas |-> Cardinality(DOMAIN s.deltas),
         n_colors |-> Cardinality(DOMAIN s.colors),
         cells_empty |-> \A i \in DOMAIN s.cells : s.cells[i] = 0,
         deltas_none |-> \A i \in DOMAIN s.deltas : s.deltas[i] = None,
         colors_none |-> \A i \in DOMAIN s.colors : s.colors[i] = None]

\* one call of Screen::new_pixels in a build with or without overflow checks
new_pixels_call(w, h, overflow_checks) ==
    LET panic == new_pixels_panics(w, h, overflow_checks)
        size  == new_pixels_size(w, h)
    IN  [panic |-> panic,
         ret   |-> IF panic THEN None ELSE Some(screen_summary(size[1], size[2]))]

offset_size(sp, offset) ==
    LET p == offset_px(offset)
    IN  <<u16_wrapping_add(IF p[1] # 0 THEN 1 ELSE 0, sp.width),
          u16_wrapping_add(IF p[2] # 0 THEN 1 ELSE 0, sp.height)>>

\* whether one of the two additions of offset_size overflows
offset_size_overflows(sp, offset) ==
    LET p == offset_px(offset)
    IN  \/ u16_add_overflows(IF p[1] # 0 THEN 1 ELSE 0, sp.width)
        \/ u16_add_overflows(IF p[2] # 0 THEN 1 ELSE 0, sp.height)

\* a plausible slip: the base width used for every offset grid
sprite_index_base_width(sp, x, y, offset) == index(x, y, sp.width)

sprite_index(sp, x, y, offset) == index(x, y, offset_size(sp, offset)[1])

sprite_from_index(sp, i, offset) == from_index(i, offset_size(sp, offset)[1])

\* SmallVec::resize(new_size, ColoredCell::default())
resize(buf, new_size) ==
    [i \in 0..(new_size - 1) |-> IF i \in DOMAIN buf THEN buf[i] ELSE ColoredCell_default]

\* buf[i].merge_cell(cell, color)
merge_at(buf, i, cell, color) == [buf EXCEPT ![i] = merge_cell(@, cell, color)]

\* the body of the innermost loop of Sprite::new, for source cell (x, y):
\* buf is this.offsets[offset], and the result is buf after the merges
Sprite_new_cell(this, buf, data, dx, dy, x, y) ==
    LET offset == px_offset(dx, dy)
        i_orig == sprite_index(this, x, y, 0)
        i_ul   == sprite_index(this, x, y, offset)
        i_ur   == sprite_index(this, x + 1, y, offset)
        i_dl   == sprite_index(this, x, y + 1, offset)
        i_dr   == sprite_index(this, x + 1, y + 1, offset)
        color  == data[i_orig].color
        oc     == with_offset(data[i_orig].cell, dx, dy)
    IN  CASE oc.kind = "Aligned" ->
               merge_at(buf, i_ul, oc.cell, color)
          [] oc.kind = "Horizontal" ->
               merge_at(merge_at(buf, i_ul, oc.left, color), i_ur, oc.right, color)
          [] oc.kind = "Vertical" ->
               merge_at(merge_at(buf, i_ul, oc.up, color), i_dl, oc.down, color)
          [] oc.kind = "Corner" ->
               merge_at(merge_at(merge_at(merge_at(buf,
                   i_ul, oc.ul, color), i_ur, oc.ur, color),
                   i_dl, oc.dl, color), i_dr, oc.dr, color)

\* for y in 0..height_cells { for x in 0..width_cells { ... } }, from the k-th cell
RECURSIVE Sprite_new_cells(_, _, _, _, _, _)
Sprite_new_cells(this, buf, data, dx, dy, k) ==
    IF k >= cell_length(this.width, this.height)
    THEN buf
    ELSE Sprite_new_cells(this,
             Sprite_new_cell(this, buf, data, dx, dy, k % this.width, k \div this.width),
             data, dx, dy, k + 1)

\* one pass of for dy in 0..PIXEL_HEIGHT { for dx in 0..PIXEL_WIDTH { ... } }:
\* the grid of offset px_offset(dx, dy), resized and filled.  A pass writes
\* this.offsets[offset] only, and reads the sizes of `this`.
Sprite_new_offset(this, data, dx, dy) ==
    LET offset   == px_offset(dx, dy)
        size     == offset_size(this, offset)
        new_size == cell_length(size[1], size[2])
    IN  Sprite_new_cells(this, resize(this.offsets[offset], new_size), data, dx, dy, 0)

Sprite_new(data, width_cells, height_cells, priority) ==
    LET this == Sprite_empty(width_cells, height_cells, priority)
    IN  [this EXCEPT !.offsets =
            [o \in 0..(PIXEL_OFFSETS - 1) |->
                Sprite_new_offset(this, data, offset_px(o)[1], offset_px(o)[2])]]

\* the indices at which the innermost loop of Sprite::new indexes buf for source
\* cell (x, y): those of the arm of the match that is taken
Sprite_new_cell_indices(this, data, dx, dy, x, y) ==
    LET offset == px_offset(dx, dy)
        i_ul   == sprite_index(this, x, y, offset)
        i_ur   == sprite_index(this, x + 1, y, offset)
        i_dl   == sprite_index(this, x, y + 1, offset)
        i_dr   == sprite_index(this, x + 1, y + 1, offset)
        kind   == with_offset(data[sprite_index(this, x, y, 0)].cell, dx, dy).kind
    IN  CASE kind = "Aligned"    -> {i_ul}
          [] kind = "Horizontal" -> {i_ul, i_ur}
          [] kind = "Vertical"   -> {i_ul, i_dl}
          [] kind = "Corner"     -> {i_ul, i_ur, i_dl, i_dr}

\* whether the body of the innermost loop panics for source cell (x, y): an
\* overflow of x + 1 or y + 1 (with overflow checks), data[i_orig] outside data,
\* or buf[i] outside the resized grid
Sprite_new_cell_panics(this, data, dx, dy, x, y, overflow_checks) ==
    LET offset   == px_offset(dx, dy)
        size     == offset_size(this, offset)
        new_size == cell_length(size[1], size[2])
    IN  \/ overflow_checks /\ (u16_add_overflows(x, 1) \/ u16_add_overflows(y, 1))
        \/ sprite_index(this, x, y, 0) \notin DOMAIN data
        \/ \E i \in Sprite_new_cell_indices(this, data, dx, dy, x, y) :
              i \notin 0..(new_size - 1)

\* whether Sprite::new panics.  overflow_checks is the build's setting: with it
\* an overflowing u16 addition panics, without it the sum wraps.
Sprite_new_panics(data, width_cells, height_cells, priority, overflow_checks) ==
    LET this == Sprite_empty(width_cells, height_cells, priority)
    IN  \/ /\ overflow_checks
           /\ \E o \in 0..(PIXEL_OFFSETS - 1) : offset_size_overflows(this, o)
        \/ \E o \in 0..(PIXEL_OFFSETS - 1) :
              \E k \in 0..(cell_length(width_cells, height_cells) - 1) :
                 Sprite_new_cell_panics(this, data, offset_px(o)[1], offset_px(o)[2],
                                        k % width_cells, k \div width_cells,
                                        overflow_checks)

\* str::len of one character: the length of its UTF-8 encoding
len_utf8(ch) ==
    IF ch < 128 THEN 1 ELSE IF ch < 2048 THEN 2 ELSE IF ch < 65536 THEN 3 ELSE 4

\* str::len of characters lo..hi of a row: the sum of their encoded lengths
RECURSIVE str_len_between(_, _, _)
str_len_between(row, lo, hi) ==
    IF lo > hi THEN 0
    ELSE IF lo = hi THEN len_utf8(row[lo])
    ELSE LET mid == (lo + hi) \div 2
         IN  str_len_between(row, lo, mid) + str_len_between(row, mid + 1, hi)

str_len(row) == str_len_between(row, 1, Len(row))

\* data.len() after the loops: the number of characters of rows lo..hi
RECURSIVE chars_between(_, _, _)
chars_between(rows, lo, hi) ==
    IF lo > hi THEN 0
    ELSE IF lo = hi THEN Len(rows[lo])
    ELSE LET mid == (lo + hi) \div 2
         IN  chars_between(rows, lo, mid) + chars_between(rows, mid + 1, hi)

\* the i-th character pushed (from 0).  Read only after every row was found to
\* have width_bytes bytes and Braille characters only, of 3 bytes each: every
\* row then has width_cells = width_bytes / 3 characters
char_at(rows, width_cells, i) == rows[(i \div width_cells) + 1][(i % width_cells) + 1]

\* from_braille_string up to the construction of the sprite.  rows is a sequence
\* of rows, each a sequence of code points
from_braille_string_parse(rows, color) ==
    IF rows = <<>>
    THEN [kind |-> "empty"]
    ELSE LET width_bytes == str_len(rows[1])
         IN  IF \E r \in 1..Len(rows) : str_len(rows[r]) # width_bytes
             THEN [kind |-> "none"]
             ELSE IF \E r \in 1..Len(rows) : \E j \in 1..Len(rows[r]) :
                        ~from_braille(rows[r][j]).some
             THEN [kind |-> "none"]
             ELSE IF width_bytes = 0
             THEN [kind |-> "empty"]
             ELSE LET len          == chars_between(rows, 1, Len(rows))
                      width_cells  == width_bytes \div BRAILLE_UTF8_BYTES
                      height_cells == len \div width_cells
                  IN  IF width_cells <= u16_MAX /\ height_cells <= u16_MAX
                      THEN [kind |-> "new",
                            data |-> [i \in 0..(len - 1) |->
                                        ColoredCell(from_braille(char_at(rows, width_cells, i)).value,
                                                    color)],
                            width_cells |-> width_cells,
                            height_cells |-> height_cells]
                      ELSE [kind |-> "none"]

\* the rest of from_braille_string: what it returns after p was decided
from_braille_string_build(p, priority) ==
    CASE p.kind = "none"  -> None
      [] p.kind = "empty" -> Some(Sprite_empty(0, 0, priority))
      [] p.kind = "new"   ->
           Some(Sprite_new(p.data, p.width_cells, p.height_cells, priority))

from_braille_string(rows, color, priority) ==
    from_braille_string_build(from_braille_string_parse(rows, color), priority)

\* whether the rest of from_braille_string panics: only Sprite::new can
from_braille_string_panics(p, priority, overflow_checks) ==
    /\ p.kind = "new"
    /\ Sprite_new_panics(p.data, p.width_cells, p.height_cells, priority,
                         overflow_checks)

\* one call of Sprite::new in a build with or without overflow checks: it
\* panics, or returns ret
Sprite_new_call(data, width_cells, height_cells, priority, overflow_checks) ==
    LET panic == Sprite_new_panics(data, width_cells, height_cells, priority,
                                   overflow_checks)
    IN  [panic |-> panic,
         ret   |-> IF panic THEN None
                   ELSE Some(Sprite_new(data, width_cells, height_cells, priority))]

\* one call of from_braille_string in a build with or without overflow checks:
\* it panics, or returns ret
from_braille_string_call(rows, color, priority, overflow_checks) ==
    LET p     == from_braille_string_parse(rows, color)
        panic == from_braille_string_panics(p, priority, overflow_checks)
    IN  [panic |-> panic,
         ret   |-> IF panic THEN None ELSE from_braille_string_build(p, priority)]

(***************************************************************************)
(* screen.rs: Screen::draw_sprite                                          *)
(***************************************************************************)
\* a plausible slip: the empty cells of the grid are blitted like the others
draw_sprite_cell_opaque(acc, sprite, offset, dx_cell, dy_cell, blit, i) ==
    LET cc  == sprite.offsets[offset][i]
        pos == sprite_from_index(sprite, i, offset)
        x   == u16_wrapping_add(pos[1], dx_cell)
        y   == u16_wrapping_add(pos[2], dy_cell)
        drawn == draw_cell(acc.s, cc.cell, x, y, blit, sprite.priority)
    IN  IF cc.color.some
        THEN LET colored == draw_cell_color(drawn.s, cc.color.value, x, y,
                                            sprite.priority)
             IN  [s |-> colored.s, ret |-> acc.ret /\ drawn.ret /\ colored.ret]
        ELSE [s |-> drawn.s, ret |-> acc.ret /\ drawn.ret]

\* one step of the fold over the selected grid: acc = [s, ret]
draw_sprite_cell(acc, sprite, offset, dx_cell, dy_cell, blit, i) ==
    LET cc  == sprite.offsets[offset][i]
        pos == sprite_from_index(sprite, i, offset)
        x   == u16_wrapping_add(pos[1], dx_cell)
        y   == u16_wrapping_add(pos[2], dy_cell)
    IN  IF ~is_empty(cc.cell)
        THEN LET drawn == draw_cell(acc.s, cc.cell, x, y, blit, sprite.priority)
             IN  IF cc.color.some
                 THEN LET colored == draw_cell_color(drawn.s, cc.color.value, x, y,
                                                     sprite.priority)
                      IN  [s |-> colored.s, ret |-> acc.ret /\ drawn.ret /\ colored.ret]
                 ELSE [s |-> drawn.s, ret |-> acc.ret /\ drawn.ret]
        ELSE acc

\* a plausible slip: the fold stops at the first cell that is out of bounds
RECURSIVE draw_sprite_fold_short_circuit(_, _, _, _, _, _, _, _)
draw_sprite_fold_short_circuit(acc, sprite, offset, dx_cell, dy_cell, blit, lo, hi) ==
    IF hi <= lo \/ ~acc.ret
    THEN acc
    ELSE IF hi = lo + 1
    THEN draw_sprite_cell(acc, sprite, offset, dx_cell, dy_cell, blit, lo)
    ELSE LET mid  == (lo + hi) \div 2
             left == draw_sprite_fold_short_circuit(acc, sprite, offset, dx_cell,
                                                    dy_cell, blit, lo, mid)
         IN  IF ~left.ret THEN left
             ELSE draw_sprite_fold_short_circuit(left, sprite, offset, dx_cell,
                                                 dy_cell, blit, mid, hi)

\* data.iter().enumerate().fold(true, ...) over the cells lo .. hi - 1, in the
\* order of the indices: the accumulator after the first half of the cells is
\* computed (its ret is a boolean), then the second half is folded from it
RECURSIVE draw_sprite_fold(_, _, _, _, _, _, _, _)
draw_sprite_fold(acc, sprite, offset, dx_cell, dy_cell, blit, lo, hi) ==
    IF hi <= lo
    THEN acc
    ELSE IF hi = lo + 1
    THEN draw_sprite_cell(acc, sprite, offset, dx_cell, dy_cell, blit, lo)
    ELSE LET mid  == (lo + hi) \div 2
             left == draw_sprite_fold(acc, sprite, offset, dx_cell, dy_cell, blit,
                                      lo, mid)
         IN  IF left.ret \in BOOLEAN
             THEN draw_sprite_fold(left, sprite, offset, dx_cell, dy_cell, blit,
                                   mid, hi)
             ELSE left

draw_sprite(s, sprite, x_pixel, y_pixel, blit) ==
    LET pc     == pos_components(x_pixel, y_pixel)
        offset == px_offset(pc[1][2], pc[2][2])
    IN  draw_sprite_fold([s |-> s, ret |-> TRUE], sprite, offset,
                         pc[1][1], pc[2][1], blit,
                         0, Cardinality(DOMAIN sprite.offsets[offset]))

(***************************************************************************)
(* Construction                                                            *)
(***************************************************************************)
\* whether x_cell + dx_cell or y_cell + dy_cell does not fit 16 bits for the
\* i-th cell of the grid
draw_sprite_cell_overflows(sprite, offset, dx_cell, dy_cell, i) ==
    LET pos == sprite_from_index(sprite, i, offset)
    IN  u16_add_overflows(pos[1], dx_cell) \/ u16_add_overflows(pos[2], dy_cell)

\* whether draw_sprite panics.  Nothing is computed for a grid without cells.
\* Otherwise sprite.from_index calls offset_size, whose addition panics under
\* overflow checks when it overflows; a width that wrapped to 0 makes
\* from_index divide by zero, which panics in every build; and under overflow
\* checks the two sums of the target coordinates panic when they overflow.
draw_sprite_panics(sprite, x_pixel, y_pixel, overflow_checks) ==
    LET pc     == pos_components(x_pixel, y_pixel)
        offset == px_offset(pc[1][2], pc[2][2])
        data   == sprite.offsets[offset]
    IN  /\ DOMAIN data # {}
        /\ \/ overflow_checks /\ offset_size_overflows(sprite, offset)
           \/ offset_size(sprite, offset)[1] = 0
           \/ /\ overflow_checks
              /\ \E i \in DOMAIN data :
                    draw_sprite_cell_overflows(sprite, offset, pc[1][1], pc[2][1], i)

\* one call of draw_sprite in a build with or without overflow checks: it
\* panics, or leaves the screen s and returns ret
draw_sprite_call(s, sprite, x_pixel, y_pixel, blit, overflow_checks) ==
    IF draw_sprite_panics(sprite, x_pixel, y_pixel, overflow_checks)
    THEN [panic |-> TRUE, s |-> s, ret |-> FALSE]
    ELSE [panic |-> FALSE] @@ draw_sprite(s, sprite, x_pixel, y_pixel, blit)

InitScreen ==
    LET s == new_cells(ScreenWidth, ScreenHeight)
    IN  /\ cells = s.cells
        /\ deltas = s.deltas
        /\ colors = s.colors
        /\ calls = <<>>
        /\ pre = s
        /\ shown = s.cells
        /\ out = <<>>
        /\ lp = [pc |-> "start", term |-> Terminal(FALSE, FALSE, FALSE),
                 entered |-> FALSE, event |-> None, e |-> None, ret |-> None,
                 frames |-> 0, exits |-> 0, trace |-> <<>>]

(***************************************************************************)
(* SpecCell: the Cell operations applied to every Cell::new(b)             *)
(***************************************************************************)
XOffsets == 0..(PIXEL_WIDTH - 1)
YOffsets == 0..(PIXEL_HEIGHT - 1)

\* characters just outside the Braille block, and an ASCII letter
NonBrailleChars ==
    {BRAILLE_BASE_CODEPOINT - 1, BRAILLE_BASE_CODEPOINT + 256, 65}

InitCell ==
    /\ cin \in Byte
    /\ cout = [op |-> "new"]
    /\ InitScreen

CellWithOffset ==
    /\ \E dx \in XOffsets, dy \in YOffsets :
         cout' = [op |-> "with_offset", dx |-> dx, dy |-> dy,
                  out |-> with_offset(cin, dx, dy)]
    /\ UNCHANGED <<cin, screenVars, ioVars>>

CellBrailleOffset ==
    /\ cout' = [op |-> "braille_offset", offset |-> braille_offset(cin)]
    /\ UNCHANGED <<cin, screenVars, ioVars>>

\* Cell::from_braille(Cell::new(cin).to_braille_char())
CellToBrailleAndBack ==
    /\ cout' = [op |-> "to_braille_char", ch |-> to_braille_char(cin),
                back |-> from_braille(to_braille_char(cin))]
    /\ UNCHANGED <<cin, screenVars, ioVars>>

\* Cell::from_braille(c) for the cin-th Braille character and for other characters
CellFromBraille ==
    /\ \E ch \in {BRAILLE_BASE_CODEPOINT + cin} \cup NonBrailleChars :
         cout' = [op |-> "from_braille", ch |-> ch, cell |-> from_braille(ch)]
    /\ UNCHANGED <<cin, screenVars, ioVars>>

NextCell ==
    \/ CellWithOffset
    \/ CellBrailleOffset
    \/ CellToBrailleAndBack
    \/ CellFromBraille

SpecCell == InitCell /\ [][NextCell]_vars

(***************************************************************************)
(* Calls on one Screen::new_cells(ScreenWidth, ScreenHeight)               *)
(***************************************************************************)
\* the Screen as a value
Current == ScreenState(cells, deltas, colors)

\* the effect of a call with result r: the new arrays, and the record of the call
ScreenCalled(r, call) ==
    /\ cells' = r.s.cells
    /\ deltas' = r.s.deltas
    /\ colors' = r.s.colors
    /\ calls' = Append(calls, call @@ [ret |-> r.ret])
    /\ pre' = Current
    /\ shown' = IF call.op = "reset_deltas" THEN r.s.cells ELSE shown

Called(r, call) ==
    /\ ScreenCalled(r, call)
    /\ UNCHANGED <<cellVars, ioVars>>

InitScreenSpec ==
    /\ cin = 0
    /\ cout = [op |-> "new"]
    /\ InitScreen

\* the last call, and whether there is one of the given name
Last == calls[Len(calls)]
LastIs(op) == calls # <<>> /\ Last.op = op

(***************************************************************************)
(* SpecScreen: draw_cell, draw_cell_color, draw_pixel, clear, reset_deltas *)
(***************************************************************************)
\* the number of calls made on the screen
MaxOps == 2

\* the cells drawn: the cell of tests::draw_cell, and one without symmetry
CellArgs == {60, 165}

Priorities == {0, 1}

ColorArgs == {1, 2}

\* cell targets: the first and the last cell of the screen, one target past the
\* right edge and one below the bottom edge
CellTargets ==
    {<<0, 0>>, <<ScreenWidth - 1, ScreenHeight - 1>>,
     <<ScreenWidth, 0>>, <<0, ScreenHeight>>}

\* pixel targets: pixels of the first cell and of the last cell, and pixels past
\* the right and the bottom edge
PixelTargets ==
    {<<0, 0>>, <<1, 2>>,
     <<PIXEL_WIDTH * ScreenWidth - 2, PIXEL_HEIGHT * ScreenHeight - 3>>,
     <<PIXEL_WIDTH * ScreenWidth - 1, PIXEL_HEIGHT * ScreenHeight - 1>>,
     <<PIXEL_WIDTH * ScreenWidth, 0>>, <<1, PIXEL_HEIGHT * ScreenHeight>>}

DrawCell ==
    /\ Len(calls) < MaxOps
    /\ \E cell \in CellArgs, t \in CellTargets, blit \in Blits, priority \in Priorities :
         Called(draw_cell(Current, cell, t[1], t[2], blit, priority),
                [op |-> "draw_cell", cell |-> cell, x |-> t[1], y |-> t[2],
                 blit |-> blit, priority |-> priority])

DrawCellColor ==
    /\ Len(calls) < MaxOps
    /\ \E color \in ColorArgs, t \in CellTargets, priority \in Priorities :
         Called(draw_cell_color(Current, color, t[1], t[2], priority),
                [op |-> "draw_cell_color", color |-> color, x |-> t[1], y |-> t[2],
                 priority |-> priority])

DrawPixel ==
    /\ Len(calls) < MaxOps
    /\ \E t \in PixelTargets, blit \in Blits :
         Called(draw_pixel(Current, t[1], t[2], blit),
                [op |-> "draw_pixel", x |-> t[1], y |-> t[2], blit |-> blit])

Clear ==
    /\ Len(calls) < MaxOps
    /\ Called([s |-> clear(Current), ret |-> TRUE], [op |-> "clear"])

ResetDeltas ==
    /\ Len(calls) < MaxOps
    /\ Called([s |-> reset_deltas(Current), ret |-> TRUE], [op |-> "reset_deltas"])

NextScreen ==
    \/ DrawCell
    \/ DrawCellColor
    \/ DrawPixel
    \/ Clear
    \/ ResetDeltas

SpecScreen == InitScreenSpec /\ [][NextScreen]_vars

(***************************************************************************)
(* SpecPixel: draw_pixel on a screen on which one cell may have been Set   *)
(***************************************************************************)
DrawCellFirst ==
    /\ calls = <<>>
    /\ \E cell \in CellArgs, t \in {c \in CellTargets : in_bounds(c[1], c[2])} :
         Called(draw_cell(Current, cell, t[1], t[2], "Set", 0),
                [op |-> "draw_cell", cell |-> cell, x |-> t[1], y |-> t[2],
                 blit |-> "Set", priority |-> 0])

NextPixel ==
    \/ DrawCellFirst
    \/ DrawPixel

SpecPixel == InitScreenSpec /\ [][NextPixel]_vars

(***************************************************************************)
(* SpecSprite: draw_sprite                                                 *)
(***************************************************************************)
\* how the sprites drawn are built: "⣿" as in tests::draw_unaliged_cell, a
\* 2x1 sprite whose right cell is empty, and a 1x2 sprite
SpriteDefs ==
    <<[by |-> "from_braille_string", rows |-> <<<<BRAILLE_BASE_CODEPOINT + 255>>>>,
       color |-> None, priority |-> 0],
      [by |-> "new", data |-> <<165, 0>>, w |-> 2, h |-> 1,
       color |-> Some(1), priority |-> 1],
      [by |-> "new", data |-> <<129, 90>>, w |-> 1, h |-> 2,
       color |-> Some(2), priority |-> 0]>>

SpriteIds == 1..Len(SpriteDefs)

\* the sprite built from a definition; every cell of the data has the one colour
BuildSprite(d) ==
    IF d.by = "new"
    THEN Sprite_new([i \in 0..(Len(d.data) - 1) |-> ColoredCell(d.data[i + 1], d.color)],
                    d.w, d.h, d.priority)
    ELSE from_braille_string(d.rows, d.color, d.priority).value

SpriteTable == [k \in SpriteIds |-> BuildSprite(SpriteDefs[k])]

\* pixel positions of the top left corner: every sub-cell offset at the first
\* cell, the last cell, positions that straddle the right and the bottom edge,
\* and one outside the screen
SpritePositions ==
    {<<0, 0>>, <<1, 0>>, <<0, 1>>, <<0, 2>>, <<0, 3>>, <<1, 1>>, <<1, 2>>, <<1, 3>>,
     <<PIXEL_WIDTH * ScreenWidth - 2, PIXEL_HEIGHT * ScreenHeight - 4>>,
     <<PIXEL_WIDTH * ScreenWidth - 1, 1>>,
     <<0, PIXEL_HEIGHT * ScreenHeight - 2>>,
     <<PIXEL_WIDTH * ScreenWidth, PIXEL_HEIGHT * ScreenHeight>>}

\* the blits sprites are drawn with
SpriteBlits == {"Add", "Toggle"}

DrawSprite ==
    /\ Len(calls) < MaxOps
    /\ \E k \in SpriteIds, p \in SpritePositions, blit \in SpriteBlits :
         Called(draw_sprite(Current, SpriteTable[k], p[1], p[2], blit),
                [op |-> "draw_sprite", sprite |-> k, x |-> p[1], y |-> p[2],
                 blit |-> blit])

NextSprite == DrawSprite

SpecSprite == InitScreenSpec /\ [][NextSprite]_vars

(***************************************************************************)
(* SpecColor: colours written by draw_cell_color and by coloured sprites,  *)
(* in frames ended by reset_deltas                                         *)
(***************************************************************************)
ColoredSprites == {k \in SpriteIds : SpriteDefs[k].color.some}

\* an aligned and a corner position at which the coloured sprites overlap
ColorPositions == {<<0, 0>>, <<1, 1>>}

DrawColoredSprite ==
    /\ Len(calls) < MaxOps
    /\ \E k \in ColoredSprites, p \in ColorPositions :
         Called(draw_sprite(Current, SpriteTable[k], p[1], p[2], "Add"),
                [op |-> "draw_sprite", sprite |-> k, x |-> p[1], y |-> p[2],
                 blit |-> "Add"])

NextColor ==
    \/ DrawCellColor
    \/ DrawColoredSprite
    \/ ResetDeltas

SpecColor == InitScreenSpec /\ [][NextColor]_vars

(***************************************************************************)
(* SpecLoop: start_loop, step by step                                      *)
(***************************************************************************)
\* the number of frames start_loop is followed for
MaxFrames == 2

\* the events event::read() returns: ctrl+c, a plain c, and ctrl+x
LoopEvents == {KeyEvent("c", TRUE), KeyEvent("c", FALSE), KeyEvent("x", TRUE)}

\* the blit the tick callback draws with
TickBlits == {"Add"}

\* a step of start_loop: the new position and fields, and the step recorded
\* with the frame's event
LoopStep(pc, fields, step) ==
    lp' = [fields EXCEPT !.pc = pc,
                         !.trace = Append(lp.trace, [step |-> step, event |-> fields.event])]

\* self.enter_screen()?
LoopEnter ==
    /\ lp.pc = "start"
    /\ \E r \in enter_screen(lp.term) :
         IF r.ok
         THEN LoopStep("poll", [lp EXCEPT !.term = r.term, !.entered = TRUE],
                       "enter_screen")
         ELSE LoopStep("done", [lp EXCEPT !.term = r.term, !.ret = Some("Err")],
                       "enter_screen failed")
    /\ UNCHANGED <<cellVars, screenVars, out>>

\* event::poll(frame), event::read()? and the sleep
LoopPoll ==
    /\ lp.pc = "poll"
    /\ lp.frames < MaxFrames
    /\ \/ \E ev \in LoopEvents :
            LoopStep("handle", [lp EXCEPT !.event = Some(ev)], "poll")
       \/ LoopStep("handle", [lp EXCEPT !.event = None], "poll")
       \/ LoopStep("done", [lp EXCEPT !.event = None, !.ret = Some("Err")],
                   "read failed")
    /\ UNCHANGED <<cellVars, screenVars, out>>

\* if !self.handle_default_events(event.clone())? { break None; }
LoopHandle ==
    /\ lp.pc = "handle"
    /\ \E r \in handle_default_events(lp.term, lp.event) :
         LET after == [lp EXCEPT !.term = r.term,
                                 !.exits = IF r.exited THEN @ + 1 ELSE @]
         IN  IF ~r.ret.some
             THEN LoopStep("done", [after EXCEPT !.ret = Some("Err")],
                           "handle_default_events failed")
             ELSE IF r.ret.value
             THEN LoopStep("tick", after, "handle_default_events")
             ELSE LoopStep("exit", after, "handle_default_events")
    /\ UNCHANGED <<cellVars, screenVars, out>>

\* match tick(self, event): the callback draws a cell, or colours one, or does
\* nothing, and returns Ok(()), or it returns Err(e)
LoopTick ==
    /\ lp.pc = "tick"
    /\ \/ /\ \E cell \in CellArgs, t \in CellTargets, blit \in TickBlits :
               ScreenCalled(draw_cell(Current, cell, t[1], t[2], blit, 0),
                   [op |-> "draw_cell", cell |-> cell, x |-> t[1], y |-> t[2],
                    blit |-> blit, priority |-> 0])
          /\ LoopStep("render", lp, "tick")
       \/ /\ \E color \in ColorArgs, t \in CellTargets :
               ScreenCalled(draw_cell_color(Current, color, t[1], t[2], 0),
                   [op |-> "draw_cell_color", color |-> color, x |-> t[1], y |-> t[2],
                    priority |-> 0])
          /\ LoopStep("render", lp, "tick")
       \/ /\ LoopStep("render", lp, "tick")
          /\ UNCHANGED screenVars
       \/ /\ LoopStep("exit", [lp EXCEPT !.e = Some("tick error")], "tick failed")
          /\ UNCHANGED screenVars
    /\ UNCHANGED <<cellVars, out>>

\* self.render_screen()?: all of write_screen_to reaches the terminal, or a
\* part of it and the error is returned
LoopRender ==
    /\ lp.pc = "render"
    /\ LET written == write_screen_to(Current)
       IN  \/ /\ out' = out \o written
              /\ LoopStep("reset", lp, "render_screen")
           \/ \E n \in 0..(Len(written) - 1) :
                /\ out' = out \o SubSeq(written, 1, n)
                /\ LoopStep("done", [lp EXCEPT !.ret = Some("Err")],
                            "render_screen failed")
    /\ UNCHANGED <<cellVars, screenVars>>

\* self.reset_deltas(), and the next iteration
LoopReset ==
    /\ lp.pc = "reset"
    /\ ScreenCalled([s |-> reset_deltas(Current), ret |-> TRUE], [op |-> "reset_deltas"])
    /\ LoopStep("poll", [lp EXCEPT !.frames = @ + 1], "reset_deltas")
    /\ UNCHANGED <<cellVars, out>>

\* after the loop: self.exit_screen()?, the eprintln of e, and Ok(())
LoopExit ==
    /\ lp.pc = "exit"
    /\ \E r \in exit_screen(lp.term) :
         LET after == [lp EXCEPT !.term = r.term, !.exits = @ + 1]
         IN  IF r.ok
             THEN LoopStep("done", [after EXCEPT !.ret = Some("Ok")], "exit_screen")
             ELSE LoopStep("done", [after EXCEPT !.ret = Some("Err")],
                           "exit_screen failed")
    /\ UNCHANGED <<cellVars, screenVars, out>>

NextLoop ==
    \/ LoopEnter
    \/ LoopPoll
    \/ LoopHandle
    \/ LoopTick
    \/ LoopRender
    \/ LoopReset
    \/ LoopExit

SpecLoop == InitScreenSpec /\ [][NextLoop]_vars

(***************************************************************************)
(* SpecRender: write_screen_to after cells, colours and sprites are drawn  *)
(***************************************************************************)
\* every cell of the screen, and one position past the right edge
RenderTargets ==
    ((0..(ScreenWidth - 1)) \X (0..(ScreenHeight - 1))) \cup {<<ScreenWidth, 0>>}

DrawCellSet ==
    /\ Len(calls) < MaxOps
    /\ \E cell \in CellArgs, t \in RenderTargets :
         Called(draw_cell(Current, cell, t[1], t[2], "Set", 0),
                [op |-> "draw_cell", cell |-> cell, x |-> t[1], y |-> t[2],
                 blit |-> "Set", priority |-> 0])

\* write_screen_to into a buffer that accepts everything
Render ==
    /\ Len(calls) <= MaxOps
    /\ ~LastIs("write_screen_to")
    /\ ScreenCalled([s |-> Current, ret |-> TRUE], [op |-> "write_screen_to"])
    /\ out' = write_screen_to(Current)
    /\ UNCHANGED <<cellVars, lp>>

NextRender ==
    \/ DrawCellSet
    \/ DrawCellColor
    \/ DrawColoredSprite
    \/ Clear
    \/ Render

SpecRender == InitScreenSpec /\ [][NextRender]_vars

(***************************************************************************)
(* SpecRaster: rasterize after cells and colours are drawn                 *)
(***************************************************************************)
Rasterize ==
    /\ Len(calls) <= MaxOps
    /\ ~LastIs("rasterize")
    /\ Called([s |-> Current, ret |-> rasterize(Current)], [op |-> "rasterize"])

NextRaster ==
    \/ DrawCellSet
    \/ DrawCellColor
    \/ Clear
    \/ Rasterize

SpecRaster == InitScreenSpec /\ [][NextRaster]_vars

(***************************************************************************)
(* SpecBraille: Sprite::from_braille_string applied to rows of characters  *)
(***************************************************************************)
\* the number of rows of the short inputs
MaxRows == 2

\* characters of 1, 2 and 3 bytes outside the Braille block
LatinA == 65
LatinEAcute == 233
EuroSign == 8364

\* the rows the short inputs are made of: empty, Braille rows of one and two
\* cells, and rows with other characters, among them 3 bytes in two characters
BrailleRows ==
    {<<>>,
     <<BRAILLE_BASE_CODEPOINT>>,
     <<BRAILLE_BASE_CODEPOINT + 255>>,
     <<BRAILLE_BASE_CODEPOINT + 255, BRAILLE_BASE_CODEPOINT + 1>>,
     <<LatinA>>,
     <<LatinA, LatinEAcute>>,
     <<EuroSign>>,
     <<BRAILLE_BASE_CODEPOINT + 255, EuroSign>>}

\* inputs at the limit of u16, given by their shape: one row of u16::MAX cells,
\* u16::MAX rows of one cell, and one row more than that
LimitShapes ==
    {[n_rows |-> 1, n_cells |-> u16_MAX],
     [n_rows |-> u16_MAX, n_cells |-> 1],
     [n_rows |-> u16_MAX + 1, n_cells |-> 1]}

\* the sequence of n times v
RECURSIVE Repeat(_, _)
Repeat(v, n) ==
    IF n = 0 THEN <<>>
    ELSE IF n % 2 = 1 THEN Append(Repeat(v, n - 1), v)
    ELSE LET half == Repeat(v, n \div 2) IN half \o half

\* the rows of a shape: every character is U+28FF
ShapeRows(shape) ==
    Repeat(Repeat(BRAILLE_BASE_CODEPOINT + 255, shape.n_cells), shape.n_rows)

ShortInputs == UNION {[1..n -> BrailleRows] : n \in 0..MaxRows}

InitBraille ==
    /\ cin \in [rows : ShortInputs, color : {None, Some(1)}, priority : {0}]
               \cup [shape : LimitShapes, color : {None}, priority : {0}]
    /\ cout = [op |-> "new"]
    /\ InitScreen

\* the rows passed to from_braille_string
InputRows == IF "rows" \in DOMAIN cin THEN cin.rows ELSE ShapeRows(cin.shape)

\* one call of Sprite::from_braille_string in a build with or without overflow
\* checks
FromBrailleString ==
    /\ cout.op = "new"
    /\ \E rows \in {InputRows}, overflow_checks \in BOOLEAN :
         cout' = [op |-> "from_braille_string", overflow_checks |-> overflow_checks]
                 @@ from_braille_string_call(rows, cin.color, cin.priority,
                                             overflow_checks)
    /\ UNCHANGED <<cin, screenVars, ioVars>>

NextBraille == FromBrailleString

SpecBraille == InitBraille /\ [][NextBraille]_vars

(***************************************************************************)
(* SpecNew: Sprite::new applied to data of width_cells * height_cells      *)
(***************************************************************************)
\* the greatest width and height of the short inputs
MaxSpriteDim == 2

\* the cells of the short inputs: the first and the last pixel, and all but them
NewCells == {129, 126}

\* the sequences of n cells
CellSeqs(n) == [1..n -> NewCells]

\* every data of every size up to MaxSpriteDim, with its size
ShortNewInputs ==
    UNION {[data : CellSeqs(w * h), w : {w}, h : {h}] :
              w \in 0..MaxSpriteDim, h \in 0..MaxSpriteDim}

\* data at the limit of u16, given by their size: every cell is full
LimitNewInputs ==
    {[cell |-> 255, w |-> u16_MAX, h |-> 1],
     [cell |-> 255, w |-> 1, h |-> u16_MAX]}

InitNew ==
    /\ cin \in {i @@ [color |-> c, priority |-> 0] :
                  i \in ShortNewInputs, c \in {None, Some(1)}}
               \cup {i @@ [color |-> None, priority |-> 0] : i \in LimitNewInputs}
    /\ cout = [op |-> "new"]
    /\ InitScreen

\* the data passed to Sprite::new, of length w * h
InputData ==
    IF "data" \in DOMAIN cin
    THEN [i \in 0..(Len(cin.data) - 1) |-> ColoredCell(cin.data[i + 1], cin.color)]
    ELSE [i \in 0..(cin.w * cin.h - 1) |-> ColoredCell(cin.cell, cin.color)]

\* one call of Sprite::new in a build with or without overflow checks
SpriteNew ==
    /\ cout.op = "new"
    /\ \E overflow_checks \in BOOLEAN :
         cout' = [op |-> "Sprite::new", overflow_checks |-> overflow_checks]
                 @@ Sprite_new_call(InputData, cin.w, cin.h, cin.priority,
                                    overflow_checks)
    /\ UNCHANGED <<cin, screenVars, ioVars>>

NextNew == SpriteNew

SpecNew == InitNew /\ [][NextNew]_vars

(***************************************************************************)
(* SpecEmpty: Sprite::empty                                                *)
(***************************************************************************)
\* the priorities the empty sprites are made with
EmptyPriorities == {0, 1, 2, 255, 256, u16_MAX}

InitEmpty ==
    /\ cin \in [w : 0..MaxSpriteDim, h : 0..MaxSpriteDim, priority : EmptyPriorities]
    /\ cout = [op |-> "new"]
    /\ InitScreen

SpriteEmpty ==
    /\ cout.op = "new"
    /\ cout' = [op |-> "Sprite::empty", ret |-> Sprite_empty(cin.w, cin.h, cin.priority)]
    /\ UNCHANGED <<cin, screenVars, ioVars>>

NextEmpty == SpriteEmpty

SpecEmpty == InitEmpty /\ [][NextEmpty]_vars

(***************************************************************************)
(* Colour approximation: interpolate_component on either scale for every   *)
(* target, and from_rgb_approximate on the RGB triple of every colour.     *)
(***************************************************************************)
ScaleNames == {"RGB", "GREYSCALE"}
ScaleOf(name) == IF name = "RGB" THEN RGB ELSE GREYSCALE

InitApprox ==
    /\ cin \in [scale : ScaleNames, target : Byte] \cup [color : Byte]
    /\ cout = [op |-> "new"]
    /\ InitScreen

InterpolateComponent ==
    /\ cout.op = "new"
    /\ "target" \in DOMAIN cin
    /\ cout' = [op |-> "interpolate_component",
                ret |-> interpolate_component(ScaleOf(cin.scale), cin.target)]
    /\ UNCHANGED <<cin, screenVars, ioVars>>

\* Color::from_rgb_approximate applied to the result of to_rgb_approximate
ApproximateRoundTrip ==
    /\ cout.op = "new"
    /\ "color" \in DOMAIN cin
    /\ LET rgb == to_rgb_approximate(cin.color)
       IN  \E ret \in from_rgb_approximate(rgb[1], rgb[2], rgb[3]) :
               cout' = [op |-> "from_rgb_approximate", rgb |-> rgb, ret |-> ret]
    /\ UNCHANGED <<cin, screenVars, ioVars>>

NextApprox == InterpolateComponent \/ ApproximateRoundTrip

SpecApprox == InitApprox /\ [][NextApprox]_vars

(***************************************************************************)
(* Screen::new_pixels for small sizes and for sizes at the top of u16.     *)
(***************************************************************************)
MaxPixelWidth == 4
MaxPixelHeight == 8

\* sizes near u16::MAX in one dimension, with a small other dimension
TopWidths == {u16_MAX - 2, u16_MAX - 1, u16_MAX}
TopHeights == {u16_MAX - 4, u16_MAX - 3, u16_MAX}

NewPixelsInputs ==
    [w : 0..MaxPixelWidth, h : 0..MaxPixelHeight]
        \cup [w : TopWidths, h : {0, 1, PIXEL_HEIGHT}]
        \cup [w : {0, 1, PIXEL_WIDTH}, h : TopHeights]

InitNewPixels ==
    /\ cin \in NewPixelsInputs
    /\ cout = [op |-> "new"]
    /\ InitScreen

NewPixels ==
    /\ cout.op = "new"
    /\ \E overflow_checks \in BOOLEAN :
         cout' = [op |-> "new_pixels", overflow_checks |-> overflow_checks]
                 @@ new_pixels_call(cin.w, cin.h, overflow_checks)
    /\ UNCHANGED <<cin, screenVars, ioVars>>

NextNewPixels == NewPixels

SpecNewPixels == InitNewPixels /\ [][NextNewPixels]_vars

(***************************************************************************)
(* One sprite drawn with any blit over a screen on which one sprite may    *)
(* have been drawn before.                                                 *)
(***************************************************************************)
DrawSpriteFirst ==
    /\ calls = <<>>
    /\ \E k \in SpriteIds, p \in SpritePositions, blit \in SpriteBlits :
         Called(draw_sprite(Current, SpriteTable[k], p[1], p[2], blit),
                [op |-> "draw_sprite", sprite |-> k, x |-> p[1], y |-> p[2],
                 blit |-> blit])

DrawSpriteOver ==
    /\ Len(calls) <= 1
    /\ \E k \in SpriteIds, p \in SpritePositions, blit \in Blits :
         Called(draw_sprite(Current, SpriteTable[k], p[1], p[2], blit),
                [op |-> "draw_sprite", sprite |-> k, x |-> p[1], y |-> p[2],
                 blit |-> blit, over |-> TRUE])

NextOver == DrawSpriteFirst \/ DrawSpriteOver

SpecOver == InitScreenSpec /\ [][NextOver]_vars

(***************************************************************************)
(* draw_sprite with sprites and pixel positions over the whole u16 range   *)
(***************************************************************************)
\* sprites without pixels, as Sprite::empty(w, h, 0) returns them: the widest
\* one, one whose last column added to the cell column of the last pixel
\* passes u16::MAX, and one whose last row does so
WideSprites ==
    {[w |-> u16_MAX, h |-> 1],
     [w |-> u16_MAX - (u16_MAX \div PIXEL_WIDTH) + 2, h |-> 1],
     [w |-> 1, h |-> u16_MAX - (u16_MAX \div PIXEL_HEIGHT) + 2]}

FarXs == {0, 1, u16_MAX - 1, u16_MAX}
FarYs == {0, PIXEL_HEIGHT - 1, u16_MAX}

InitFar ==
    /\ cin \in [sprite : [id : SpriteIds] \cup WideSprites, x : FarXs, y : FarYs,
                blit : SpriteBlits]
    /\ cout = [op |-> "new"]
    /\ InitScreen

InputSprite ==
    IF "id" \in DOMAIN cin.sprite THEN SpriteTable[cin.sprite.id]
    ELSE Sprite_empty(cin.sprite.w, cin.sprite.h, 0)

DrawSpriteFar ==
    /\ calls = <<>>
    /\ \E overflow_checks \in BOOLEAN :
         \E r \in {draw_sprite_call(Current, InputSprite, cin.x, cin.y, cin.blit,
                                    overflow_checks)} :
             ScreenCalled(r, [op |-> "draw_sprite", overflow_checks |-> overflow_checks,
                              panic |-> r.panic])
    /\ UNCHANGED <<cellVars, ioVars>>

NextFar == DrawSpriteFar

SpecFar == InitFar /\ [][NextFar]_vars

(***************************************************************************)
(* Frames of draw_cell, draw_pixel, draw_sprite and clear calls, separated *)
(* by reset_deltas                                                         *)
(***************************************************************************)
DrawCellBlit ==
    /\ Len(calls) < MaxOps
    /\ \E cell \in CellArgs, t \in {<<0, 0>>, <<ScreenWidth - 1, ScreenHeight - 1>>},
          blit \in Blits :
         Called(draw_cell(Current, cell, t[1], t[2], blit, 0),
                [op |-> "draw_cell", cell |-> cell, x |-> t[1], y |-> t[2],
                 blit |-> blit, priority |-> 0])

DrawSpriteBlit ==
    /\ Len(calls) < MaxOps
    /\ \E k \in SpriteIds, p \in ColorPositions, blit \in Blits :
         Called(draw_sprite(Current, SpriteTable[k], p[1], p[2], blit),
                [op |-> "draw_sprite", sprite |-> k, x |-> p[1], y |-> p[2],
                 blit |-> blit])

\* the new screen, or the screen after a first frame in which a cell was Set
\* at the first position and reset_deltas was called
FirstFrames ==
    {new_cells(ScreenWidth, ScreenHeight)}
        \cup {reset_deltas(draw_cell(new_cells(ScreenWidth, ScreenHeight),
                                     cell, 0, 0, "Set", 0).s) : cell \in CellArgs}

InitDirty ==
    /\ cin = 0
    /\ cout = [op |-> "new"]
    /\ \E s \in FirstFrames :
         /\ cells = s.cells
         /\ deltas = s.deltas
         /\ colors = s.colors
         /\ pre = s
         /\ shown = s.cells
    /\ calls = <<>>
    /\ out = <<>>
    /\ lp = [pc |-> "start", term |-> Terminal(FALSE, FALSE, FALSE),
             entered |-> FALSE, event |-> None, e |-> None, ret |-> None,
             frames |-> 0, exits |-> 0, trace |-> <<>>]

NextDirty ==
    \/ DrawCellBlit
    \/ DrawPixel
    \/ DrawSpriteBlit
    \/ Clear
    \/ ResetDeltas

SpecDirty == InitDirty /\ [][NextDirty]_vars

(***************************************************************************)
(* Claims about Cell                                                       *)
(***************************************************************************)
\* pixel (px, py) of a cell, in the pixel layout (bit 2*py + px)
CellPixel(c, px, py) == Bit(c, PIXEL_WIDTH * py + px) = 1

\* the cell an OffsetCell puts at position (gx, gy) of a 2x2 cell grid:
\* Aligned: (0,0); Horizontal: left (0,0), right (1,0); Vertical: up (0,0),
\* down (0,1); Corner: ul (0,0), ur (1,0), dl (0,1), dr (1,1)
OffsetGridCell(oc, gx, gy) ==
    CASE oc.kind = "Aligned" ->
           IF <<gx, gy>> = <<0, 0>> THEN oc.cell ELSE 0
      [] oc.kind = "Horizontal" ->
           IF <<gx, gy>> = <<0, 0>> THEN oc.left
           ELSE IF <<gx, gy>> = <<1, 0>> THEN oc.right ELSE 0
      [] oc.kind = "Vertical" ->
           IF <<gx, gy>> = <<0, 0>> THEN oc.up
           ELSE IF <<gx, gy>> = <<0, 1>> THEN oc.down ELSE 0
      [] oc.kind = "Corner" ->
           IF <<gx, gy>> = <<0, 0>> THEN oc.ul
           ELSE IF <<gx, gy>> = <<1, 0>> THEN oc.ur
           ELSE IF <<gx, gy>> = <<0, 1>> THEN oc.dl ELSE oc.dr

OffsetGridPixel(oc, X, Y) ==
    CellPixel(OffsetGridCell(oc, X \div PIXEL_WIDTH, Y \div PIXEL_HEIGHT),
              X % PIXEL_WIDTH, Y % PIXEL_HEIGHT)

OffsetKind(dx, dy) ==
    IF dx = 0 /\ dy = 0 THEN "Aligned"
    ELSE IF dy = 0 THEN "Horizontal"
    ELSE IF dx = 0 THEN "Vertical" ELSE "Corner"

\* C1: bit conservation of Cell::with_offset.  For every cell c and every
\* dx in {0,1}, dy in {0..3}, with the output cells of c.with_offset(dx,dy)
\* laid on a 2x2 cell grid, pixel (X,Y) of the grid is set if and only if
\* (X-dx, Y-dy) is a pixel of c that is set: no bit is dropped, duplicated or
\* invented.
C1_BitConservation ==
    cout.op = "with_offset" =>
        /\ cout.out.kind = OffsetKind(cout.dx, cout.dy)
        /\ \A X \in 0..(2 * PIXEL_WIDTH - 1), Y \in 0..(2 * PIXEL_HEIGHT - 1) :
             OffsetGridPixel(cout.out, X, Y) <=>
                 /\ X - cout.dx \in 0..(PIXEL_WIDTH - 1)
                 /\ Y - cout.dy \in 0..(PIXEL_HEIGHT - 1)
                 /\ CellPixel(cin, X - cout.dx, Y - cout.dy)

\* a full cell split around a corner: all four output cells carry pixels
C1_Witness ==
    /\ cout.op = "with_offset"
    /\ cin = 255
    /\ cout.dx = 1
    /\ cout.dy = 3
    /\ cout.out.kind = "Corner"
    /\ cout.out.ul # 0 /\ cout.out.ur # 0 /\ cout.out.dl # 0 /\ cout.out.dr # 0

\* C2: Braille round trip.  For every byte b,
\* from_braille(Cell::new(b).to_braille_char()) = Some(Cell::new(b)), and for
\* every Braille offset i, from_braille(U+2800+i).braille_offset() = i.
C2_BrailleRoundTrip ==
    /\ cout.op = "to_braille_char" => cout.back = Some(cin)
    /\ (cout.op = "from_braille" /\ cout.ch = BRAILLE_BASE_CODEPOINT + cin) =>
           /\ cout.cell.some
           /\ braille_offset(cout.cell.value) = cin

\* a byte whose Braille offset differs from it (bits 1..4 set unevenly)
C2_Witness ==
    /\ cout.op = "to_braille_char"
    /\ cin = 6
    /\ cout.ch = BRAILLE_BASE_CODEPOINT + 10
    /\ cout.back = Some(6)

\* the Braille bit position of pixel-layout bit i
BraillePosition == <<0, 3, 1, 4, 2, 5, 6, 7>>

\* C3: braille_offset moves pixel-layout bit i to Braille bit position p(i),
\* p = (0,3,1,4,2,5,6,7), and changes nothing else, so no other byte has the
\* same braille_offset.
C3_BraillePermutation ==
    cout.op = "braille_offset" =>
        /\ cout.offset \in Byte
        /\ \A i \in 0..7 : Bit(cout.offset, BraillePosition[i + 1]) = Bit(cin, i)
        /\ \A b \in Byte : b # cin => braille_offset(b) # cout.offset

\* the top right pixel (bit 1) lands on Braille dot 4 (bit 3)
C3_Witness ==
    /\ cout.op = "braille_offset"
    /\ cin = 2
    /\ cout.offset = 8

(***************************************************************************)
(* Claims about draw_cell, draw_cell_color and draw_pixel                  *)
(***************************************************************************)
\* the bit a blit leaves at one position of the stored cell, from the old bit
\* and the bit of the drawn cell
BlitBit(old, new, blit) ==
    CASE blit = "Set"      -> new
      [] blit = "Unset"    -> 1 - new
      [] blit = "Add"      -> IF old = 1 \/ new = 1 THEN 1 ELSE 0
      [] blit = "Subtract" -> IF old = 1 /\ new = 0 THEN 1 ELSE 0
      [] blit = "Toggle"   -> IF old = new THEN 0 ELSE 1

CellInside(x, y) == x < ScreenWidth /\ y < ScreenHeight

\* C4: an in-bounds draw_cell(cell,x,y,blit,priority) returns true and leaves
\* at (x,y): Set -> cell.bits, Unset -> !cell.bits, Add -> old | cell.bits,
\* Subtract -> old & !cell.bits, Toggle -> old ^ cell.bits, whatever the
\* priority and whatever was drawn before; every other stored cell is unchanged.
C4_BlitSemantics ==
    (LastIs("draw_cell") /\ CellInside(Last.x, Last.y)) =>
        /\ Last.ret = TRUE
        /\ DOMAIN cells = DOMAIN pre.cells
        /\ \A i \in DOMAIN cells :
             IF i = Last.y * ScreenWidth + Last.x
             THEN /\ cells[i] \in Byte
                  /\ \A b \in 0..7 :
                       Bit(cells[i], b) =
                           BlitBit(Bit(pre.cells[i], b), Bit(Last.cell, b), Last.blit)
             ELSE cells[i] = pre.cells[i]

\* the blit of tests::draw_cell: a Toggle, at low priority, over a cell that a
\* call of higher priority has set, leaves the cell empty
C4_Witness ==
    /\ Len(calls) = 2
    /\ calls[1].op = "draw_cell" /\ calls[1].blit = "Set" /\ calls[1].cell = 60
    /\ calls[1].priority = 1
    /\ LastIs("draw_cell") /\ Last.blit = "Toggle" /\ Last.cell = 60
    /\ Last.priority = 0
    /\ Last.x = ScreenWidth - 1 /\ Last.y = ScreenHeight - 1
    /\ calls[1].x = Last.x /\ calls[1].y = Last.y
    /\ pre.cells[Last.y * ScreenWidth + Last.x] = 60
    /\ cells[Last.y * ScreenWidth + Last.x] = 0

\* whether the last call is a draw whose target is outside the screen
LastDrawOutside ==
    \/ /\ LastIs("draw_cell") \/ LastIs("draw_cell_color")
       /\ Last.x >= ScreenWidth \/ Last.y >= ScreenHeight
    \/ /\ LastIs("draw_pixel")
       /\ \/ Last.x \div PIXEL_WIDTH >= ScreenWidth
          \/ Last.y \div PIXEL_HEIGHT >= ScreenHeight

\* C5: draw_cell, draw_cell_color and draw_pixel with a target outside the
\* screen return false and leave cells, deltas and colors unchanged.
C5_OutOfBoundsNoop ==
    LastDrawOutside =>
        /\ Last.ret = FALSE
        /\ cells = pre.cells
        /\ deltas = pre.deltas
        /\ colors = pre.colors

\* a draw just past the right edge (x = width) of a screen that already holds
\* a drawn cell and its delta
C5_Witness ==
    /\ Len(calls) = 2
    /\ calls[1].op = "draw_cell" /\ calls[1].ret = TRUE
    /\ LastIs("draw_cell")
    /\ Last.x = ScreenWidth /\ Last.y = 0
    /\ Last.blit = "Unset"
    /\ Last.ret = FALSE
    /\ \E i \in DOMAIN cells : cells[i] # 0 /\ deltas[i].some

\* the pixels of the screen
ScreenPixels ==
    (0..(PIXEL_WIDTH * ScreenWidth - 1)) \X (0..(PIXEL_HEIGHT * ScreenHeight - 1))

\* C6: an in-bounds draw_pixel(x,y,blit) changes exactly the addressed pixel:
\* get_pixel(x,y) is then true for Set/Add, false for Unset/Subtract, negated
\* for Toggle, and every other pixel of the screen keeps its value.
C6_PixelDraw ==
    (LastIs("draw_pixel") /\ <<Last.x, Last.y>> \in ScreenPixels) =>
        /\ Last.ret = TRUE
        /\ \A p \in ScreenPixels :
             LET before == get_pixel(pre, p[1], p[2])
                 after  == get_pixel(Current, p[1], p[2])
             IN  /\ before.some /\ after.some
                 /\ IF p = <<Last.x, Last.y>>
                    THEN after.value =
                           CASE Last.blit \in {"Set", "Add"}        -> TRUE
                             [] Last.blit \in {"Unset", "Subtract"} -> FALSE
                             [] Last.blit = "Toggle"                -> ~before.value
                    ELSE after.value = before.value

\* a pixel Set into a cell that already holds other pixels, which stay
C6_Witness ==
    /\ Len(calls) = 2
    /\ calls[1].op = "draw_cell" /\ calls[1].blit = "Set" /\ calls[1].cell = 60
    /\ calls[1].x = 0 /\ calls[1].y = 0
    /\ LastIs("draw_pixel") /\ Last.blit = "Set"
    /\ Last.x = 0 /\ Last.y = 0
    /\ pre.cells[0] = 60
    /\ cells[0] = 61

(***************************************************************************)
(* Claims about draw_sprite                                                *)
(***************************************************************************)
\* width and height, in cells, of the data a sprite is built from
BaseWidth(d) == IF d.by = "new" THEN d.w ELSE Len(d.rows[1])
BaseHeight(d) == IF d.by = "new" THEN d.h ELSE Len(d.rows)

\* pixel (px, py) of the data a sprite is built from: a bit of the cell in the
\* pixel layout, or a dot of the Braille character
BasePixel(d, px, py) ==
    /\ px \in 0..(PIXEL_WIDTH * BaseWidth(d) - 1)
    /\ py \in 0..(PIXEL_HEIGHT * BaseHeight(d) - 1)
    /\ LET cx  == px \div PIXEL_WIDTH
           cy  == py \div PIXEL_HEIGHT
           bit == PIXEL_WIDTH * (py % PIXEL_HEIGHT) + (px % PIXEL_WIDTH)
       IN  IF d.by = "new"
           THEN Bit(d.data[cy * d.w + cx + 1], bit) = 1
           ELSE Bit(d.rows[cy + 1][cx + 1] - BRAILLE_BASE_CODEPOINT,
                    BraillePosition[bit + 1]) = 1

\* pixel (X, Y) of a screen value, read from its cell
ScreenPixel(s, X, Y) ==
    CellPixel(s.cells[(Y \div PIXEL_HEIGHT) * ScreenWidth + (X \div PIXEL_WIDTH)],
              X % PIXEL_WIDTH, Y % PIXEL_HEIGHT)

\* size in cells of the offset grid selected for pixel position (x, y)
GridWidth(d, x) == BaseWidth(d) + (IF x % PIXEL_WIDTH # 0 THEN 1 ELSE 0)
GridHeight(d, y) == BaseHeight(d) + (IF y % PIXEL_HEIGHT # 0 THEN 1 ELSE 0)

\* whether that grid, placed at cell (x div 2, y div 4), lies inside the screen
GridInside(d, x, y) ==
    /\ (x \div PIXEL_WIDTH) + GridWidth(d, x) <= ScreenWidth
    /\ (y \div PIXEL_HEIGHT) + GridHeight(d, y) <= ScreenHeight

\* C7: pixel-exact sprite placement.  For a sprite built by Sprite::new or
\* from_braille_string and a pixel position (x,y) at which the selected offset
\* grid lies inside the screen, after draw_sprite(sprite,x,y,Blit::Add) a
\* screen pixel (X,Y) is set if and only if it was set before or the sprite's
\* base pixel (X-x, Y-y) is set.
C7_SpritePlacement ==
    (/\ LastIs("draw_sprite")
     /\ Last.blit = "Add"
     /\ GridInside(SpriteDefs[Last.sprite], Last.x, Last.y)) =>
        \A p \in ScreenPixels :
            ScreenPixel(Current, p[1], p[2]) <=>
                \/ ScreenPixel(pre, p[1], p[2])
                \/ BasePixel(SpriteDefs[Last.sprite], p[1] - Last.x, p[2] - Last.y)

\* tests::draw_unaliged_cell, added at pixel (1,1) over the 2x1 sprite: the
\* full cell is split over four screen cells and the old pixels stay
C7_Witness ==
    /\ Len(calls) = 2
    /\ calls[1].op = "draw_sprite" /\ calls[1].sprite = 2
    /\ calls[1].x = 0 /\ calls[1].y = 0 /\ calls[1].blit = "Toggle"
    /\ LastIs("draw_sprite") /\ Last.sprite = 1 /\ Last.blit = "Add"
    /\ Last.x = 1 /\ Last.y = 1
    /\ pre.cells[0] = 165
    /\ cells[0] = 173
    /\ cells[1] # 0 /\ cells[ScreenWidth] # 0 /\ cells[ScreenWidth + 1] # 0

\* the grid draw_sprite selects for the last call, its width, and the screen
\* cell its i-th cell is drawn at
LastGrid ==
    SpriteTable[Last.sprite].offsets[
        PIXEL_WIDTH * (Last.y % PIXEL_HEIGHT) + (Last.x % PIXEL_WIDTH)]

LastGridTarget(i) ==
    LET gw == GridWidth(SpriteDefs[Last.sprite], Last.x)
    IN  <<(i % gw) + (Last.x \div PIXEL_WIDTH), (i \div gw) + (Last.y \div PIXEL_HEIGHT)>>

\* C8: draw_sprite returns false if and only if a non-empty cell of the
\* selected offset grid falls outside the screen, and it does not stop there:
\* every non-empty cell of the grid that is in bounds is blitted, cell (with a
\* delta) and colour, also when the call returns false.
C8_SpriteClipping ==
    LastIs("draw_sprite") =>
        /\ (Last.ret = FALSE) <=>
               (\E i \in DOMAIN LastGrid :
                   /\ LastGrid[i].cell # 0
                   /\ ~CellInside(LastGridTarget(i)[1], LastGridTarget(i)[2]))
        /\ \A i \in DOMAIN LastGrid :
               LET t == LastGridTarget(i)
                   j == t[2] * ScreenWidth + t[1]
               IN  (LastGrid[i].cell # 0 /\ CellInside(t[1], t[2])) =>
                       /\ \A b \in 0..7 :
                            Bit(cells[j], b) =
                                BlitBit(Bit(pre.cells[j], b), Bit(LastGrid[i].cell, b),
                                        Last.blit)
                       /\ deltas[j].some
                       /\ LastGrid[i].color.some =>
                              (/\ colors[j].some
                               /\ colors[j] =
                                      draw_cell_color(pre, LastGrid[i].color.value,
                                          t[1], t[2],
                                          SpriteTable[Last.sprite].priority).s.colors[j])

\* "⣿" toggled at a corner offset over the right edge: the call returns false,
\* and the cell of the grid's second row that is in bounds, which comes after
\* one that is out of bounds, is drawn
C8_Witness ==
    /\ LastIs("draw_sprite") /\ Last.sprite = 1 /\ Last.blit = "Toggle"
    /\ Last.x = PIXEL_WIDTH * ScreenWidth - 1 /\ Last.y = 1
    /\ Last.ret = FALSE
    /\ cells[ScreenWidth - 1] # pre.cells[ScreenWidth - 1]
    /\ cells[2 * ScreenWidth - 1] # pre.cells[2 * ScreenWidth - 1]

(***************************************************************************)
(* Claims about colours                                                    *)
(***************************************************************************)
\* the calls of the current frame: those after the last reset_deltas
FrameStart ==
    LET resets == {i \in DOMAIN calls : calls[i].op = "reset_deltas"}
    IN  IF resets = {} THEN 0 ELSE CHOOSE i \in resets : \A k \in resets : k <= i

Frame == (FrameStart + 1)..Len(calls)

\* the screen pixels of cell j
PixelsOfCell(j) ==
    {p \in ScreenPixels :
        (p[2] \div PIXEL_HEIGHT) * ScreenWidth + (p[1] \div PIXEL_WIDTH) = j}

\* the colours, with their priorities, that call c writes to cell j:
\* draw_cell_color writes its colour to its cell when in bounds; a coloured
\* sprite writes its colour to every cell in which it has a set pixel
WritesOf(c, j) ==
    IF c.op = "draw_cell_color"
    THEN IF CellInside(c.x, c.y) /\ c.y * ScreenWidth + c.x = j
         THEN {Priority(c.color, c.priority)}
         ELSE {}
    ELSE IF c.op = "draw_sprite"
    THEN LET d == SpriteDefs[c.sprite]
         IN  IF /\ d.color.some
                /\ \E p \in PixelsOfCell(j) : BasePixel(d, p[1] - c.x, p[2] - c.y)
             THEN {Priority(d.color.value, d.priority)}
             ELSE {}
    ELSE {}

\* the colours written to cell j in the current frame
FrameWrites(j) == UNION {WritesOf(calls[i], j) : i \in Frame}

\* C9: colour priority resolution.  Within one frame, if colours are written
\* to the same in-bounds cell with priorities p1 < p2, by draw_cell_color or
\* by sprites' coloured cells, the colour recorded afterwards is one written
\* with the highest priority, in either draw order; and a write of lower
\* priority never replaces a colour of higher priority already recorded.
C9_ColorPriority ==
    \A j \in DOMAIN colors :
        /\ FrameWrites(j) # {} =>
              /\ colors[j].some
              /\ colors[j].value \in FrameWrites(j)
              /\ \A w \in FrameWrites(j) : w.priority <= colors[j].value.priority
        /\ (/\ calls # <<>>
            /\ pre.colors[j].some
            /\ \E w \in WritesOf(Last, j) : w.priority < pre.colors[j].value.priority) =>
               colors[j] = pre.colors[j]

\* the sprite of priority 1 and colour 1 drawn first, then over it the sprite
\* of priority 0 and colour 2: the first cell keeps colour 1, the cell below
\* takes colour 2
C9_Witness ==
    /\ Len(calls) = 2
    /\ calls[1].op = "draw_sprite" /\ calls[1].sprite = 2
    /\ calls[1].x = 0 /\ calls[1].y = 0
    /\ calls[2].op = "draw_sprite" /\ calls[2].sprite = 3
    /\ calls[2].x = 0 /\ calls[2].y = 0
    /\ FrameWrites(0) = {Priority(1, 1), Priority(2, 0)}
    /\ colors[0] = Some(Priority(1, 1))
    /\ colors[ScreenWidth] = Some(Priority(2, 0))

\* the two calls, if any, that are the only ones of the frame to write to cell
\* j, and write different colours with the same priority
TiedWrites(j) ==
    {t \in Frame \X Frame :
        /\ t[1] < t[2]
        /\ \A i \in Frame \ {t[1], t[2]} : WritesOf(calls[i], j) = {}
        /\ \E w1 \in WritesOf(calls[t[1]], j), w2 \in WritesOf(calls[t[2]], j) :
              w1.priority = w2.priority /\ w1.value # w2.value}

\* C10 as stated: when two different colours are written to the same cell with
\* equal priority in the same frame, the colour written first remains the
\* recorded colour.
C10_FirstWriterWinsTies ==
    \A j \in DOMAIN colors : \A t \in TiedWrites(j) :
        /\ colors[j].some
        /\ \E w \in WritesOf(calls[t[1]], j) : colors[j].value.value = w.value

\* C10 as amended: when two different colours are written to the same cell
\* with equal priority in the same frame, the colour recorded is the greater
\* of the two colour values, whichever was written first.
C10_GreaterColorWinsTies ==
    \A j \in DOMAIN colors : \A t \in TiedWrites(j) :
        /\ colors[j].some
        /\ \A i \in {t[1], t[2]} : \A w \in WritesOf(calls[i], j) :
              /\ colors[j].value.priority = w.priority
              /\ colors[j].value.value >= w.value
        /\ \E i \in {t[1], t[2]} : colors[j].value \in WritesOf(calls[i], j)

\* colour 2 written first and colour 1 second, to the same cell with the same
\* priority: colour 2 is recorded
C10_Witness ==
    /\ Len(calls) = 2
    /\ calls[1].op = "draw_cell_color" /\ calls[1].color = 2
    /\ calls[2].op = "draw_cell_color" /\ calls[2].color = 1
    /\ calls[1].x = 0 /\ calls[1].y = 0 /\ calls[2].x = 0 /\ calls[2].y = 0
    /\ calls[1].priority = calls[2].priority
    /\ TiedWrites(0) = {<<1, 2>>}
    /\ colors[0] = Some(Priority(2, calls[1].priority))

(***************************************************************************)
(* Claims about deltas                                                     *)
(***************************************************************************)
\* the value a Set or Unset draw_cell call writes: cell.bits or !cell.bits
WrittenValue(c) == IF c.blit = "Set" THEN c.cell ELSE 255 - c.cell

\* whether call c is an in-bounds draw_cell at cell j
DrawsCellAt(c, j) ==
    /\ c.op = "draw_cell"
    /\ CellInside(c.x, c.y)
    /\ c.y * ScreenWidth + c.x = j

\* whether call c is an in-bounds draw_pixel into cell j
DrawsPixelIn(c, j) ==
    /\ c.op = "draw_pixel"
    /\ <<c.x, c.y>> \in PixelsOfCell(j)

\* the Set/Unset writes of the current frame to cell j, with their priorities
SetWrites(j) ==
    {Priority(WrittenValue(calls[i]), calls[i].priority) :
        i \in {k \in Frame : DrawsCellAt(calls[k], j)
                             /\ calls[k].blit \in {"Set", "Unset"}}}

\* whether Set/Unset writes are all that happened to cell j in the frame
OnlySetWrites(j) ==
    \A i \in Frame :
        /\ calls[i].op # "clear"
        /\ ~DrawsPixelIn(calls[i], j)
        /\ DrawsCellAt(calls[i], j) => calls[i].blit \in {"Set", "Unset"}

\* C11: the delta rule of draw_cell.  Within a frame, after a sequence of
\* Set/Unset writes to a position the recorded delta is the value written by a
\* write of the highest priority among them, while the live cell holds the
\* value of the last write; every Add, Subtract or Toggle write replaces the
\* recorded delta with its own result and priority, whatever was recorded.
C11_DeltaRule ==
    \A j \in DOMAIN deltas :
        /\ (OnlySetWrites(j) /\ SetWrites(j) # {}) =>
              /\ deltas[j].some
              /\ deltas[j].value \in SetWrites(j)
              /\ \A w \in SetWrites(j) : w.priority <= deltas[j].value.priority
        /\ (calls # <<>> /\ DrawsCellAt(Last, j)
              /\ Last.blit \in {"Set", "Unset"}) =>
              cells[j] = WrittenValue(Last)
        /\ (calls # <<>> /\ DrawsCellAt(Last, j)
              /\ Last.blit \in {"Add", "Subtract", "Toggle"}) =>
              /\ deltas[j].some
              /\ deltas[j].value.priority = Last.priority
              /\ \A b \in 0..7 :
                    Bit(deltas[j].value.value, b) =
                        BlitBit(Bit(pre.cells[j], b), Bit(Last.cell, b), Last.blit)

\* a Set of priority 1 and then a Set of priority 0 at the same position: the
\* cell holds the second value, the delta the first
C11_Witness ==
    /\ Len(calls) = 2
    /\ DrawsCellAt(calls[1], 0) /\ calls[1].blit = "Set"
    /\ calls[1].cell = 60 /\ calls[1].priority = 1
    /\ DrawsCellAt(calls[2], 0) /\ calls[2].blit = "Set"
    /\ calls[2].cell = 165 /\ calls[2].priority = 0
    /\ cells[0] = 165
    /\ deltas[0] = Some(Priority(60, 1))

\* whether call c writes cell j: an in-bounds draw_cell or draw_pixel, or clear
WritesCell(c, j) ==
    \/ c.op = "clear"
    \/ DrawsCellAt(c, j)
    \/ DrawsPixelIn(c, j)

\* C12 as stated: in every reachable Screen state, deltas[i] is Some if and
\* only if the value of cell i has changed since the last reset_deltas.
C12_DeltaIffChanged ==
    \A i \in DOMAIN deltas : deltas[i].some <=> cells[i] # shown[i]

\* C12 as amended: deltas[i] is Some if and only if cell i has been written
\* since the last reset_deltas, whether or not the write changed its value; so
\* a cell whose value differs from the one at the last reset has a Some delta.
C12_DeltaIffWritten ==
    \A i \in DOMAIN deltas :
        /\ deltas[i].some <=> \E k \in Frame : WritesCell(calls[k], i)
        /\ cells[i] # shown[i] => deltas[i].some

\* the same cell toggled twice at the first position: the cell is back to the
\* value it had at the start of the frame, and its delta is Some
C12_Witness ==
    /\ Len(calls) = 2
    /\ DrawsCellAt(calls[1], 0) /\ calls[1].blit = "Toggle" /\ calls[1].cell = 60
    /\ DrawsCellAt(calls[2], 0) /\ calls[2].blit = "Toggle" /\ calls[2].cell = 60
    /\ cells[0] = shown[0]
    /\ deltas[0].some
    /\ ~deltas[1].some

(***************************************************************************)
(* Claims about start_loop                                                 *)
(***************************************************************************)
\* C13: terminal restoration.  On every path by which start_loop returns
\* after enter_screen succeeded (interrupt key, tick callback error, I/O error
\* from the event read or from render_screen), exit_screen has been executed
\* before the return.
C13_TerminalRestored ==
    (lp.pc = "done" /\ lp.entered) => lp.exits >= 1

\* whether an event is ctrl+c
IsInterrupt(event) == event = Some(KeyEvent("c", TRUE))

\* the steps that invoke the tick callback or render
TickOrRender == {"tick", "tick failed", "render_screen", "render_screen failed"}

\* C14: the interrupt escape hatch.  When the event polled in a frame is
\* ctrl+c, start_loop leaves the loop in that frame without invoking the tick
\* callback or rendering; a frame whose event is anything else, or none, goes
\* on to the tick callback.
C14_InterruptEscape ==
    /\ \A i \in DOMAIN lp.trace :
          lp.trace[i].step \in TickOrRender => ~IsInterrupt(lp.trace[i].event)
    /\ \A i \in DOMAIN lp.trace :
          (lp.trace[i].step = "poll" /\ IsInterrupt(lp.trace[i].event)) =>
              \A k \in DOMAIN lp.trace :
                  k > i => lp.trace[k].step \in {"handle_default_events",
                                                 "handle_default_events failed",
                                                 "exit_screen", "exit_screen failed"}
    /\ (lp.trace # <<>> /\ lp.trace[Len(lp.trace)].step = "handle_default_events") =>
          IF IsInterrupt(lp.event) THEN lp.pc = "exit" ELSE lp.pc = "tick"
    /\ (lp.trace # <<>> /\ lp.trace[Len(lp.trace)].step = "handle_default_events failed") =>
          IsInterrupt(lp.event) /\ lp.pc = "done"

\* a frame completes, and in the next one ctrl+c is read: the loop is left by
\* exit_screen, and start_loop returns Ok after one tick in all
C14_Witness ==
    /\ lp.pc = "done"
    /\ lp.ret = Some("Ok")
    /\ lp.frames = 1
    /\ IsInterrupt(lp.event)
    /\ lp.exits = 2
    /\ Cardinality({i \in DOMAIN lp.trace : lp.trace[i].step = "tick"}) = 1

\* the draw of the tick of the frame that has just completed, if it drew
LastTickDraw ==
    IF Len(calls) >= 2 /\ lp.trace[Len(lp.trace) - 2].step = "tick"
       /\ calls[Len(calls) - 1].op = "draw_cell"
       /\ Len(lp.trace) >= 3
    THEN Some(calls[Len(calls) - 1])
    ELSE None

\* C15: the frame cycle.  In each iteration of start_loop the order is tick,
\* then render, then reset_deltas; after every iteration that completes every
\* entry of deltas and colors is None while cells holds what the tick drew;
\* and reset_deltas is not executed for a frame whose render did not succeed.
C15_FrameCycle ==
    /\ \A i \in DOMAIN lp.trace :
          lp.trace[i].step = "reset_deltas" =>
              /\ i >= 3
              /\ lp.trace[i - 1].step = "render_screen"
              /\ lp.trace[i - 2].step = "tick"
    /\ \A i \in DOMAIN lp.trace :
          lp.trace[i].step = "render_screen failed" =>
              /\ i = Len(lp.trace)
              /\ lp.pc = "done"
    /\ (lp.trace # <<>> /\ lp.trace[Len(lp.trace)].step = "reset_deltas") =>
          /\ \A j \in DOMAIN deltas : ~deltas[j].some /\ ~colors[j].some
          /\ cells = pre.cells
          /\ Len(out) > 0 /\ out[Len(out)] = Flush
          /\ LET d == LastTickDraw
             IN  (d.some /\ d.value.ret) =>
                    \A b \in 0..7 :
                        Bit(d.value.cell, b) = 1 =>
                            Bit(cells[d.value.y * ScreenWidth + d.value.x], b) = 1

\* two frames complete: the ticks drew a cell at the first position and then
\* one at the last, both still in cells, and no delta is left
C15_Witness ==
    /\ lp.pc = "poll"
    /\ lp.frames = 2
    /\ cells[0] = 60
    /\ cells[ScreenWidth * ScreenHeight - 1] = 165
    /\ \A j \in DOMAIN deltas : ~deltas[j].some
    /\ Len(lp.trace) = 11

(***************************************************************************)
(* Claims about write_screen_to                                            *)
(***************************************************************************)
\* the indexes of the cells with a delta, and of the glyphs in the output
Dirty == {i \in DOMAIN deltas : deltas[i].some}
Glyphs == {k \in DOMAIN out : out[k].cmd = "write_all"}

\* the dirty cell the glyph at output index k belongs to: the n-th dirty cell
\* in index order for the n-th glyph
CellOfGlyph(k) ==
    CHOOSE i \in Dirty :
        Cardinality({j \in Dirty : j < i}) = Cardinality({g \in Glyphs : g < k})

\* a terminal whose cursor advances one column per written character: the
\* column and the row of its cursor before output index k
TerminalColumn(k) ==
    LET m == CHOOSE m \in 1..(k - 1) :
                 /\ out[m].cmd \in {"MoveTo", "MoveToColumn"}
                 /\ \A n \in (m + 1)..(k - 1) : out[n].cmd \notin {"MoveTo", "MoveToColumn"}
    IN  out[m].x + Cardinality({g \in Glyphs : m < g /\ g < k})

TerminalRow(k) ==
    LET m == CHOOSE m \in 1..(k - 1) :
                 /\ out[m].cmd \in {"MoveTo", "MoveToRow"}
                 /\ \A n \in (m + 1)..(k - 1) : out[n].cmd \notin {"MoveTo", "MoveToRow"}
    IN  out[m].y

\* the glyph written before the glyph at output index k, or 0
GlyphBefore(k) ==
    IF \E g \in Glyphs : g < k
    THEN CHOOSE g \in Glyphs : g < k /\ \A h \in Glyphs : h < k => h <= g
    ELSE 0

\* the cursor-move commands between the glyph at k and the glyph before it
IsMove(c) == c.cmd \in {"MoveTo", "MoveToRow", "MoveToColumn"}

MovesBefore(k) ==
    SelectSeq(SubSeq(out, IF GlyphBefore(k) = 0 THEN 2 ELSE GlyphBefore(k) + 1, k - 1),
              IsMove)

\* where the running cursor is after the glyph before the one at k: one
\* column past the cell written, or the top left corner at the start
TrackedCursor(k) ==
    IF GlyphBefore(k) = 0
    THEN <<0, 0>>
    ELSE LET p == CellOfGlyph(GlyphBefore(k))
         IN  <<(p % ScreenWidth) + 1, p \div ScreenWidth>>

\* the three UTF-8 bytes of the Braille character of a cell value
IsGlyphOf(bytes, v) ==
    \E offset \in Byte :
        /\ \A b \in 0..7 : Bit(offset, BraillePosition[b + 1]) = Bit(v, b)
        /\ bytes = <<226, 160 + (offset \div 64), 128 + (offset % 64)>>

\* C16: incremental render placement.  write_screen_to writes a glyph for
\* exactly the positions whose delta is Some, in increasing row-major index
\* order; on a terminal whose cursor advances one column per character each
\* glyph lands at the (x,y) of its cell; no cursor move is emitted for a cell
\* directly to the right of the one written before, a column-only or row-only
\* move when only that axis differs from the tracked cursor, a full move
\* otherwise.
C16_RenderPlacement ==
    LastIs("write_screen_to") =>
        /\ Cardinality(Glyphs) = Cardinality(Dirty)
        /\ \A k \in Glyphs :
              LET i  == CellOfGlyph(k)
                  x  == i % ScreenWidth
                  y  == i \div ScreenWidth
                  tx == TerminalColumn(k)
                  ty == TerminalRow(k)
                  tk == TrackedCursor(k)
              IN  /\ tx = x /\ ty = y
                  /\ IsGlyphOf(out[k].bytes, deltas[i].value.value)
                  /\ MovesBefore(k) =
                        IF tk[1] = x /\ tk[2] = y THEN <<>>
                        ELSE IF tk[1] = x THEN <<MoveToRow(y)>>
                        ELSE IF tk[2] = y THEN <<MoveToColumn(x)>>
                        ELSE <<MoveTo(x, y)>>
        /\ out[1] = MoveTo(0, 0)

\* clear, then a cell Set at the last position: glyphs for all four cells and
\* one move, the full move to the start of the second row
C16_Witness ==
    /\ LastIs("write_screen_to")
    /\ Len(calls) = 3
    /\ calls[1].op = "clear"
    /\ DrawsCellAt(calls[2], ScreenWidth * ScreenHeight - 1) /\ calls[2].cell = 165
    /\ Cardinality(Glyphs) = ScreenWidth * ScreenHeight
    /\ Len(SelectSeq(out, IsMove)) = ScreenHeight
    /\ out[2 + ScreenWidth] = MoveTo(0, 1)
    /\ IsGlyphOf(out[Len(out) - 1].bytes, 165)

\* a cell Set in the second column of the first row, then one in the first
\* column of the second row: a column-only move and then a full move
C16_ColumnMoveReached ==
    /\ LastIs("write_screen_to")
    /\ SelectSeq(out, IsMove) = <<MoveTo(0, 0), MoveToColumn(1), MoveTo(0, 1)>>

\* a cell Set at the first position and one at the last position of a screen
\* two cells wide: a row-only move
C16_RowMoveReached ==
    /\ LastIs("write_screen_to")
    /\ \E k \in DOMAIN out : out[k] = MoveToRow(ScreenHeight - 1)

\* C17: during write_screen_to a foreground-colour command is emitted for a
\* dirty cell only when that cell's colour differs from the colour of the last
\* emitted colour command: the same colour is never emitted twice in a row.
C17_ColorEmittedOnChange ==
    LastIs("write_screen_to") =>
        \A k \in DOMAIN out : \A m \in DOMAIN out :
            (/\ m < k
             /\ out[m].cmd = "SetForegroundColor"
             /\ out[k].cmd = "SetForegroundColor"
             /\ \A n \in (m + 1)..(k - 1) : out[n].cmd # "SetForegroundColor") =>
                out[k].color # out[m].color

(***************************************************************************)
(* Claims about rasterize                                                  *)
(***************************************************************************)
\* C18: the output of rasterize.  For a screen of width w and height h it is
\* h rows in row order, each the 3-byte Braille encodings of the row's w cells
\* from left to right and then one newline: h*(3w+1) bytes, only U+2800..U+28FF
\* and 0x0A.  It is determined by cells alone, and rasterize changes no state.
C18_RasterizeFormat ==
    LastIs("rasterize") =>
        LET w == ScreenWidth
            h == ScreenHeight
            s == Last.ret
        IN  /\ Len(s) = h * (3 * w + 1)
            /\ \A y \in 0..(h - 1) :
                  /\ s[(y + 1) * (3 * w + 1)] = 10
                  /\ \A x \in 0..(w - 1) :
                        IsGlyphOf(SubSeq(s, y * (3 * w + 1) + 3 * x + 1,
                                            y * (3 * w + 1) + 3 * x + 3),
                                  cells[y * w + x])
            /\ cells = pre.cells
            /\ deltas = pre.deltas
            /\ colors = pre.colors

\* a cleared screen with one cell drawn, so that deltas are set when it is rasterized
C18_Witness ==
    /\ LastIs("rasterize")
    /\ Len(calls) = 3
    /\ calls[1].op = "clear"
    /\ calls[2].op = "draw_cell" /\ calls[2].ret /\ calls[2].cell = 165
    /\ calls[2].x = ScreenWidth - 1 /\ calls[2].y = ScreenHeight - 1
    /\ Len(Last.ret) = ScreenHeight * (3 * ScreenWidth + 1)
    /\ SubSeq(Last.ret, 1, 3) = <<226, 160, 128>>
    /\ Last.ret[Len(Last.ret)] = 10

(***************************************************************************)
(* Claims about Sprite::from_braille_string                                *)
(***************************************************************************)
\* the cases in which None is to be returned: a row whose byte length is not
\* that of row 0, a character outside U+2800..U+28FF, or a width or height in
\* cells that does not fit u16
RowLengthsDiffer(rows) == \E r \in 1..Len(rows) : str_len(rows[r]) # str_len(rows[1])

IsBrailleChar(ch) ==
    ch \in BRAILLE_BASE_CODEPOINT..(BRAILLE_BASE_CODEPOINT + 255)

NonBrailleChar(rows) ==
    \E r \in 1..Len(rows) : \E j \in 1..Len(rows[r]) : ~IsBrailleChar(rows[r][j])

\* width and height in cells of rows of Braille characters of one length
BrailleWidth(rows) == IF rows = <<>> THEN 0 ELSE str_len(rows[1]) \div 3
BrailleHeight(rows) == IF BrailleWidth(rows) = 0 THEN 0 ELSE Len(rows)

SizeDoesNotFit(rows) == BrailleWidth(rows) > u16_MAX \/ BrailleHeight(rows) > u16_MAX

ToBeNone(rows) == RowLengthsDiffer(rows) \/ NonBrailleChar(rows) \/ SizeDoesNotFit(rows)

\* what the claim says of a call that returned ret
AsSpecified(rows, ret) ==
    IF ToBeNone(rows)
    THEN ret = None
    ELSE /\ ret.some
         /\ ret.value.width = BrailleWidth(rows)
         /\ ret.value.height = BrailleHeight(rows)

\* what from_braille_string returns when it returns
C19_ReturnsAsSpecified ==
    (cout.op = "from_braille_string" /\ ~cout.panic) =>
        \A rows \in {InputRows} : AsSpecified(rows, cout.ret)

\* C19: Sprite::from_braille_string is total and never panics.  It returns None
\* if a row's byte length differs from that of row 0, if a character is outside
\* U+2800..U+28FF, or if the width or height in cells does not fit u16; for every
\* other input, rows of u16::MAX cells and u16::MAX rows included, it returns a
\* sprite of width byte-length/3 and height (total cells)/width.
C19_TotalNoPanic ==
    cout.op = "from_braille_string" =>
        /\ ~cout.panic
        /\ \A rows \in {InputRows} : AsSpecified(rows, cout.ret)

\* it panics exactly at the limit, with and without overflow checks
C19_PanicsAtLimitOnly ==
    cout.op = "from_braille_string" =>
        \A rows \in {InputRows} :
            cout.panic <=>
                /\ ~ToBeNone(rows)
                /\ u16_MAX \in {BrailleWidth(rows), BrailleHeight(rows)}

(***************************************************************************)
(* Claims about Sprite::new                                                *)
(***************************************************************************)
\* the width and height in cells of the grid of an offset, as integers
OffsetGridWidth(w, offset) == w + (IF offset_px(offset)[1] # 0 THEN 1 ELSE 0)
OffsetGridHeight(h, offset) == h + (IF offset_px(offset)[2] # 0 THEN 1 ELSE 0)

\* whether pixel (X, Y) of a grid of cells of width gw is set
GridPixel(grid, gw, X, Y) ==
    CellPixel(grid[(Y \div PIXEL_HEIGHT) * gw + (X \div PIXEL_WIDTH)].cell,
              X % PIXEL_WIDTH, Y % PIXEL_HEIGHT)

\* whether (px, py) is a pixel of the base data that is set
DataPixel(data, w, h, px, py) ==
    /\ px \in 0..(PIXEL_WIDTH * w - 1)
    /\ py \in 0..(PIXEL_HEIGHT * h - 1)
    /\ GridPixel(data, w, px, py)

\* the grid of every offset has its size and holds the base pixels moved by
\* the offset, and nothing else
GridsExact(sp, data, w, h) ==
    \A offset \in 0..(PIXEL_OFFSETS - 1) :
        LET dx == offset_px(offset)[1]
            dy == offset_px(offset)[2]
            gw == OffsetGridWidth(w, offset)
            gh == OffsetGridHeight(h, offset)
        IN  /\ DOMAIN sp.offsets[offset] = 0..(gw * gh - 1)
            /\ \A X \in 0..(PIXEL_WIDTH * gw - 1), Y \in 0..(PIXEL_HEIGHT * gh - 1) :
                  GridPixel(sp.offsets[offset], gw, X, Y)
                      <=> DataPixel(data, w, h, X - dx, Y - dy)

\* C20: Sprite::new(data, w, h, priority) with data of length w*h builds for
\* each of the 8 offsets (dx,dy) a grid of (w+[dx#0]) x (h+[dy#0]) cells,
\* addressed with its own width, in which pixel (px+dx, py+dy) is set iff pixel
\* (px, py) of the data is set; no index used falls outside the grid written.
C20_OffsetGrids ==
    cout.op = "Sprite::new" =>
        /\ ~cout.panic
        /\ GridsExact(cout.ret.value, InputData, cin.w, cin.h)

\* the same for widths and heights below u16::MAX
C20_OffsetGridsBelowLimit ==
    (cout.op = "Sprite::new" /\ cin.w < u16_MAX /\ cin.h < u16_MAX) =>
        /\ ~cout.panic
        /\ GridsExact(cout.ret.value, InputData, cin.w, cin.h)

\* at the limit Sprite::new panics, with and without overflow checks
C20_PanicsAtLimit ==
    cout.op = "Sprite::new" => (cout.panic <=> u16_MAX \in {cin.w, cin.h})

(***************************************************************************)
(* Claims about Sprite::empty                                              *)
(***************************************************************************)
\* every cell of every grid is ColoredCell::default()
AllDefault(sp) ==
    \A k \in 0..(PIXEL_OFFSETS - 1) :
        \A i \in DOMAIN sp.offsets[k] : sp.offsets[k][i] = ColoredCell_default

\* C21: Sprite::empty(w, h, priority) yields for every offset k a grid of
\* default cells whose length is offset_size(k).0 * offset_size(k).1: the base
\* size plus one column when the x component of k is not zero and plus one row
\* when its y component is not zero.
C21_EmptySizedPerOffset ==
    cout.op = "Sprite::empty" =>
        /\ AllDefault(cout.ret)
        /\ \A k \in 0..(PIXEL_OFFSETS - 1) :
              Cardinality(DOMAIN cout.ret.offsets[k])
                  = offset_size(cout.ret, k)[1] * offset_size(cout.ret, k)[2]

\* what the code does: every grid has the base size
C21_EmptySizedAsBase ==
    cout.op = "Sprite::empty" =>
        /\ AllDefault(cout.ret)
        /\ cout.ret.width = cin.w /\ cout.ret.height = cin.h
        /\ cout.ret.priority = cin.priority
        /\ \A k \in 0..(PIXEL_OFFSETS - 1) :
              DOMAIN cout.ret.offsets[k] = 0..(cin.w * cin.h - 1)

(***************************************************************************)
(* Claims about colour approximation                                       *)
(***************************************************************************)
Interpolated == cout.op = "interpolate_component"

\* the returned index names a scale value nearest to the target
NearestIndex(scale, target, i) ==
    /\ i \in DOMAIN scale
    /\ \A j \in DOMAIN scale : AbsDiff(scale[i], target) <= AbsDiff(scale[j], target)

\* the indices of the scale values at the same distance from the target as i
TiedWith(scale, target, i) ==
    {j \in DOMAIN scale : AbsDiff(scale[j], target) = AbsDiff(scale[i], target)}

\* C22 as stated: interpolate_component returns the index of the scale value
\* nearest to the target, and on an exact tie between two adjacent scale
\* values the larger one is chosen.
C22_NearestTiesUp ==
    Interpolated =>
        LET scale == ScaleOf(cin.scale)
        IN  /\ NearestIndex(scale, cin.target, cout.ret)
            /\ \A j \in TiedWith(scale, cin.target, cout.ret) : j <= cout.ret

\* C22 amended: interpolate_component returns the index of the scale value
\* nearest to the target for every target on both scales, and on an exact
\* tie between two adjacent scale values the smaller one is chosen.
C22_NearestTiesDown ==
    Interpolated =>
        LET scale == ScaleOf(cin.scale)
        IN  /\ NearestIndex(scale, cin.target, cout.ret)
            /\ \A j \in TiedWith(scale, cin.target, cout.ret) : cout.ret <= j

\* target 115 lies midway between RGB[1] = 95 and RGB[2] = 135
C22_Witness ==
    /\ Interpolated
    /\ cin.scale = "RGB"
    /\ cin.target = 115
    /\ cout.ret = 1

\* C23: for every colour c of the cube range 16..=231 and of the greyscale
\* range 232..=255, from_rgb_approximate(c.to_rgb_approximate()) returns c.
C23_ExactRoundTrip ==
    (cout.op = "from_rgb_approximate" /\ cin.color >= 16) => cout.ret = cin.color

\* a greyscale colour came back from its RGB triple (58, 58, 58)
C23_Witness ==
    /\ cout.op = "from_rgb_approximate"
    /\ cin.color = 237
    /\ cout.rgb = <<58, 58, 58>>
    /\ cout.ret = 237

(***************************************************************************)
(* Claims about the horizontal shift                                       *)
(***************************************************************************)
HorizontalShift ==
    /\ cout.op = "with_offset"
    /\ cout.dx = 1
    /\ cout.dy = 0

\* column `to` of cell d holds column `from` of cell c, its other column is empty
ColumnMoved(c, from, d, to) ==
    \A py \in 0..(PIXEL_HEIGHT - 1) :
        /\ CellPixel(d, to, py) <=> CellPixel(c, from, py)
        /\ ~CellPixel(d, 1 - to, py)

\* C24 as stated: for with_offset(1, 0) the even-column bits of the cell are
\* found in the even column of the "right" output cell, and the odd-column
\* bits, moved left by 1, in the "left" output cell.
C24_EvenToRight ==
    HorizontalShift =>
        /\ cout.out.kind = "Horizontal"
        /\ ColumnMoved(cin, 0, cout.out.right, 0)
        /\ ColumnMoved(cin, 1, cout.out.left, 0)

\* C24 amended: for with_offset(1, 0) the even-column bits of the cell move
\* right by 1 into the odd column of the "left" output cell, and the
\* odd-column bits move into the even column of the "right" output cell.
C24_EvenToLeft ==
    HorizontalShift =>
        /\ cout.out.kind = "Horizontal"
        /\ ColumnMoved(cin, 0, cout.out.left, 1)
        /\ ColumnMoved(cin, 1, cout.out.right, 0)

\* a cell with one pixel in each column: (0, 0) and (1, 3)
C24_Witness ==
    /\ HorizontalShift
    /\ cin = 129
    /\ cout.out.left = 2
    /\ cout.out.right = 64

(***************************************************************************)
(* Claims about Screen::new_pixels                                         *)
(***************************************************************************)
CeilDiv(n, unit) == (n + unit - 1) \div unit

\* the screen has ceil(w/2) x ceil(h/4) cells, all empty, no delta, no colour
RoundedUpEmptyScreen(s, w, h) ==
    /\ s.width = CeilDiv(w, PIXEL_WIDTH)
    /\ s.height = CeilDiv(h, PIXEL_HEIGHT)
    /\ s.n_cells = s.width * s.height
    /\ s.n_deltas = s.n_cells
    /\ s.n_colors = s.n_cells
    /\ s.cells_empty /\ s.deltas_none /\ s.colors_none

\* C25: for every 16-bit pixel width and height, Screen::new_pixels creates a
\* screen of ceil(width/2) x ceil(height/4) cells, all cells empty and all
\* deltas and colours None, without arithmetic overflow.
C25_NewPixelsAllSizes ==
    cout.op = "new_pixels" =>
        /\ ~cout.panic
        /\ RoundedUpEmptyScreen(cout.ret.value, cin.w, cin.h)

\* below the top of the range the screen is as claimed: the sums
\* width + 2 and height + 4 fit 16 bits
C25_NewPixelsBelowTop ==
    (cout.op = "new_pixels" /\ cin.w + PIXEL_WIDTH <= u16_MAX
                            /\ cin.h + PIXEL_HEIGHT <= u16_MAX) =>
        /\ ~cout.panic
        /\ RoundedUpEmptyScreen(cout.ret.value, cin.w, cin.h)

\* at the top of the range the call panics under overflow checks, and without
\* them a width of u16::MAX pixels gives a screen of width 0
C25_NewPixelsAtTop ==
    (cout.op = "new_pixels" /\ cin.w = u16_MAX) =>
        IF cout.overflow_checks THEN cout.panic
        ELSE ~cout.panic /\ cout.ret.value.width = 0

(***************************************************************************)
(* Claims about sprite transparency                                        *)
(***************************************************************************)
\* the cell of the selected grid that corresponds to screen cell (X, Y) is
\* empty, or (X, Y) lies outside the rectangle the grid covers
LastGridTransparentAt(X, Y) ==
    LET d  == SpriteDefs[Last.sprite]
        gw == GridWidth(d, Last.x)
        gh == GridHeight(d, Last.y)
        gx == X - (Last.x \div PIXEL_WIDTH)
        gy == Y - (Last.y \div PIXEL_HEIGHT)
    IN  (gx \in 0..(gw - 1) /\ gy \in 0..(gh - 1)) => LastGrid[gy * gw + gx].cell = 0

\* C26: sprite transparency.  For every blit mode, draw_sprite leaves the
\* stored cell, the delta and the colour unchanged at every screen position
\* whose cell in the selected offset grid is empty, and at every position
\* outside the grid's rectangle.
C26_SpriteTransparency ==
    (LastIs("draw_sprite") /\ "over" \in DOMAIN Last) =>
        \A X \in 0..(ScreenWidth - 1), Y \in 0..(ScreenHeight - 1) :
            LET j == Y * ScreenWidth + X
            IN  LastGridTransparentAt(X, Y) =>
                    /\ cells[j] = pre.cells[j]
                    /\ deltas[j] = pre.deltas[j]
                    /\ colors[j] = pre.colors[j]

\* the 2x1 sprite whose second cell is empty, Set at a vertical offset in the
\* last row of cells: its empty cell lies over the cell next to it, which the
\* first sprite filled, and that cell keeps its pixels and its delta
C26_Witness ==
    /\ Len(calls) = 2
    /\ calls[1].sprite = 1 /\ calls[1].blit = "Add"
    /\ calls[1].x = PIXEL_WIDTH /\ calls[1].y = PIXEL_HEIGHT * (ScreenHeight - 1)
    /\ Last.sprite = 2 /\ Last.blit = "Set" /\ "over" \in DOMAIN Last
    /\ Last.x = 0 /\ Last.y = PIXEL_HEIGHT * ScreenHeight - 2
    /\ cells[(ScreenHeight - 1) * ScreenWidth + 1] = 255
    /\ deltas[(ScreenHeight - 1) * ScreenWidth + 1].some
    /\ cells[(ScreenHeight - 1) * ScreenWidth] # 0

(***************************************************************************)
(* Claims about draw_sprite over the whole coordinate range                *)
(***************************************************************************)
\* C27: draw_sprite never panics.  For every sprite and every 16-bit pixel
\* position the target cell coordinates x_cell + dx_cell and y_cell + dy_cell
\* are computed without exceeding the 16-bit range.
C27_DrawSpriteNeverPanics ==
    LastIs("draw_sprite") => ~Last.panic

\* the sprites of at most 2 x 2 cells never panic, wherever they are drawn,
\* and a call that draws nothing on the screen although the sprite has pixels
\* returns false
C27_SmallSpritesNeverPanic ==
    (LastIs("draw_sprite") /\ "id" \in DOMAIN cin.sprite) =>
        /\ ~Last.panic
        /\ (cells = pre.cells /\ cin.blit = "Add") => Last.ret = FALSE

\* the widest empty sprite at an odd pixel column panics in every build
C27_WidestPanics ==
    (/\ LastIs("draw_sprite")
     /\ "w" \in DOMAIN cin.sprite
     /\ cin.sprite.w = u16_MAX
     /\ cin.x % PIXEL_WIDTH # 0) => Last.panic

(***************************************************************************)
(* Claims about the rendered frame and the stored cells                    *)
(***************************************************************************)
\* the priorities the cell writes of the frame were made with: the argument
\* of draw_cell, the priority of the sprite, and 0 for the deltas of clear
CallPriorities(call) ==
    CASE call.op = "draw_cell"   -> {call.priority}
      [] call.op = "draw_sprite" -> {SpriteTable[call.sprite].priority}
      [] call.op = "clear"       -> {0}
      [] OTHER                   -> {}

FramePriorities == UNION {CallPriorities(calls[n]) : n \in DOMAIN calls}

\* C28: render agrees with state when priorities are not in play.  If all
\* draw_cell, draw_sprite and clear calls of a frame write with one and the
\* same priority, then at render time every recorded delta equals the live
\* cell at its position, and the glyph write_screen_to writes at every dirty
\* position is the glyph of that cell.
C28_RenderAgreesWithState ==
    (LastIs("write_screen_to") /\ Cardinality(FramePriorities) <= 1) =>
        /\ \A i \in Dirty : deltas[i].value.value = cells[i]
        /\ \A k \in Glyphs : IsGlyphOf(out[k].bytes, cells[CellOfGlyph(k)])

\* the glyph written for a dirty cell is always the glyph of its delta
C28_RenderShowsDelta ==
    LastIs("write_screen_to") =>
        \A k \in Glyphs : IsGlyphOf(out[k].bytes, deltas[CellOfGlyph(k)].value.value)

\* cell 165 and then cell 60 Set at the first position with priority 0: the
\* stored cell is 60, the delta and the glyph written are those of 165
C28_StaleGlyphReached ==
    /\ LastIs("write_screen_to")
    /\ Len(calls) = 3
    /\ calls[1].op = "draw_cell" /\ calls[1].cell = 165
    /\ calls[2].op = "draw_cell" /\ calls[2].cell = 60
    /\ cells[0] = 60
    /\ deltas[0] = Some(Priority(165, 0))
    /\ \E k \in Glyphs : IsGlyphOf(out[k].bytes, 165)

(***************************************************************************)
(* Claims about dirty tracking                                             *)
(***************************************************************************)
\* C29: dirty tracking is complete.  After any sequence of draw_cell,
\* draw_pixel, draw_sprite and clear calls since the last reset_deltas, every
\* cell whose stored value differs from its value at that reset has a Some
\* delta.
C29_DirtyComplete ==
    \A i \in DOMAIN cells : cells[i] # shown[i] => deltas[i].some

\* after a frame that left a cell at the first position: the full cell added
\* at a corner offset and a pixel subtracted, every cell differs from the start
\* of the frame and has a delta
C29_Witness ==
    /\ Len(calls) = 2
    /\ shown[0] # 0
    /\ calls[1].op = "draw_sprite" /\ calls[1].sprite = 1 /\ calls[1].blit = "Add"
    /\ calls[1].x = 1 /\ calls[1].y = 1
    /\ calls[2].op = "draw_pixel" /\ calls[2].blit = "Subtract"
    /\ cells[0] # pre.cells[0]
    /\ \A i \in DOMAIN cells : cells[i] # shown[i] /\ deltas[i].some

\* a cell drawn and kept over a reset_deltas: it is equal to its value at the
\* reset and has no delta
C29_ResetReached ==
    /\ LastIs("reset_deltas")
    /\ cells[0] # 0
    /\ cells = shown
    /\ \A i \in DOMAIN deltas : ~deltas[i].some

(***************************************************************************)
(* Claims about the colour in effect on the terminal                       *)
(***************************************************************************)
\* the foreground colour in effect on the terminal when output index k is
\* written: that of the last SetForegroundColor before k, or None for the
\* colour the terminal had before the frame
TerminalColor(k) ==
    LET sets == {m \in 1..(k - 1) : out[m].cmd = "SetForegroundColor"}
    IN  IF sets = {} THEN None
        ELSE Some(out[CHOOSE m \in sets : \A n \in sets : n <= m].color)

\* C30: colour tracking in write_screen_to matches the terminal.  Whenever a
\* dirty cell's glyph is written, a cell with a recorded colour is written in
\* that colour, and a cell with no recorded colour is not written in a colour
\* that was set for a different cell.
C30_ColorMatchesTerminal ==
    LastIs("write_screen_to") =>
        \A k \in Glyphs :
            LET color == colors[CellOfGlyph(k)]
            IN  IF color.some
                THEN TerminalColor(k) = Some(to_crossterm_color(color.value.value))
                ELSE TerminalColor(k) = None

\* the part that holds: a cell with a recorded colour is written in it
C30_ColoredCellsInTheirColor ==
    LastIs("write_screen_to") =>
        \A k \in Glyphs :
            LET color == colors[CellOfGlyph(k)]
            IN  color.some =>
                    TerminalColor(k) = Some(to_crossterm_color(color.value.value))

\* the coloured sprite at the first cell and an uncoloured cell Set next to
\* it: the second glyph is written while the sprite's colour is in effect
C30_LeakedColorReached ==
    /\ LastIs("write_screen_to")
    /\ colors[0].some
    /\ ~colors[1].some
    /\ deltas[0].some /\ deltas[1].some
    /\ \E k \in Glyphs :
          /\ CellOfGlyph(k) = 1
          /\ TerminalColor(k) = Some(to_crossterm_color(colors[0].value.value))

====
